---- MODULE Spec2Model ----
(***************************************************************************)
(* Image store, ingestion, deletion, maintenance tasks and image tokens of *)
(* the daemon (cmd/incusd), as state machines.  One process per request or *)
(* task; every step is one database transaction, one file operation or one *)
(* lock operation of the handler it models.                                *)
(***************************************************************************)
EXTENDS Naturals, Integers, Sequences, FiniteSets, TLC

(***************************************************************************)
(* Bounds of the model.                                                    *)
(***************************************************************************)
NumPosts == 2
NumGatePosts == 1
NumDeletes == 2
NumRefreshes == 2
NumSoloRefreshes == 1
MaxTokens == 2

Posts == 1..NumPosts
GatePosts == {r \in Posts : r <= NumGatePosts}
Deletes == 1..NumDeletes
Refreshes == 1..NumRefreshes
SoloRefreshes == {u \in Refreshes : u <= NumSoloRefreshes}

(***************************************************************************)
(* Fingerprints are hex strings; two of them share a prefix, because the   *)
(* token lookup compares by prefix.  <<>> is the empty string.             *)
(***************************************************************************)
FA == <<1, 1>>
FB == <<1, 2>>
Fingerprints == {FA, FB}
NoFp == <<>>
FpHeaders == {NoFp, <<1>>, FA, FB}

Projects == {"default", "blue"}
Pools == {"pool1", "pool2"}
NoPool == ""
NoAlias == ""
NoSecret == 0
NoImage == 0
Nobody == <<"nobody", 0>>

VARIABLES
    images,      \* image records of the cluster database: [id, project, fp, cached, auto]
    nextId,      \* next AUTOINCREMENT id of the images table
    aliases,     \* image alias rows: [project, name, image]
    profiles,    \* images_profiles rows: [image, profile]
    volumes,     \* per-pool image volumes: <<pool, fp>>
    files,       \* files of images/: [kind, fp], kind "blob" is images/<fp>, "rootfs" images/<fp>.rootfs
    builddirs,   \* build directories images/incus_build_* (with their temp files), by request
    tokens,      \* image-token operations: [project, fp, secret, status]
    nextSecret,  \* the secrets handed out so far
    upstream,    \* fingerprint the remote alias of an auto-update image points to
    publishLock, \* holder of imagePublishLock
    taskMu,      \* holder of imageTaskMu
    opLock,      \* holder of imageOperationLock(fp), by fingerprint
    post,        \* imagesPost requests
    del,         \* imageDelete requests
    refresh,     \* imageRefresh requests and auto-update runs
    task,        \* maintenance tasks
    calls,       \* history: results of the imageValidSecret calls <<fp, secret, found>>
    peerDeletes, \* history: image deletions requested from peers
    prune,       \* the pruneExpiredImages run
    mig,         \* the migration session: its channels and the two do() calls
    nodes,       \* the cluster edit: the raft nodes of the database and the edit loop
    get,         \* the public images, and the last imageGet or imagesGet and its answer
    autoUpdate,  \* the run of autoUpdateImages
    sync,        \* the members that have an image, and the run of imageSyncBetweenNodes
    export,      \* the export and the compressors of imgPostInstanceInfo
    leftover     \* the run of pruneLeftoverImages

vars == <<images, nextId, aliases, profiles, volumes, files, builddirs, tokens,
          nextSecret, upstream, publishLock, taskMu, opLock, post, del, refresh,
          task, calls, peerDeletes, prune, mig, nodes, get, autoUpdate, sync, export,
          leftover>>

storeVars == <<images, nextId, aliases, profiles, volumes, files>>

imageVars == <<images, nextId, aliases, profiles, volumes, files, builddirs, tokens,
               nextSecret, upstream, publishLock, taskMu, opLock, post, del, refresh,
               task, calls, peerDeletes>>

otherVars == <<prune, mig, nodes, get, autoUpdate, sync, export, leftover>>

notPrune == <<mig, nodes, get, autoUpdate, sync, export, leftover>>
notMig == <<prune, nodes, get, autoUpdate, sync, export, leftover>>
notNodes == <<prune, mig, get, autoUpdate, sync, export, leftover>>
notGet == <<prune, mig, nodes, autoUpdate, sync, export, leftover>>
notAuto == <<prune, mig, nodes, get, sync, export, leftover>>
notSync == <<prune, mig, nodes, get, autoUpdate, export, leftover>>
notExport == <<prune, mig, nodes, get, autoUpdate, sync, leftover>>
notLeftover == <<prune, mig, nodes, get, autoUpdate, sync, export>>

(***************************************************************************)
(* The cluster database and the image directory.                           *)
(***************************************************************************)
HasPrefix(s, p) == Len(p) <= Len(s) /\ SubSeq(s, 1, Len(p)) = p

Blob(fp) == [kind |-> "blob", fp |-> fp]
Rootfs(fp) == [kind |-> "rootfs", fp |-> fp]

RecordsOf(imgs, project, fp) == {i \in imgs : i.project = project /\ i.fp = fp}

\* tx.ImageExists(project, fingerprint)
ImageExists(imgs, project, fp) == RecordsOf(imgs, project, fp) # {}

\* tx.ImageIsReferencedByOtherProjects(project, fingerprint)
ImageIsReferencedByOtherProjects(imgs, project, fp) ==
    \E i \in imgs : i.fp = fp /\ i.project # project

NewImage(id, project, fp, auto) ==
    [id |-> id, project |-> project, fp |-> fp, cached |-> FALSE, auto |-> auto]

\* tx.CreateImage: the images table is UNIQUE on (project, fingerprint).
CreateImageOk(imgs, project, fp) == ~ImageExists(imgs, project, fp)

\* tx.DeleteImage(id): the row and, by cascade, its alias and profile rows.
DeleteImageRows(imgs, id) == {i \in imgs : i.id # id}
DeleteAliasRows(als, id) == {a \in als : a.image # id}
DeleteProfileRows(prs, id) == {p \in prs : p.image # id}

(***************************************************************************)
(* Image tokens.                                                           *)
(***************************************************************************)
\* The token operations imageValidSecret matches: images/<fingerprint> is a
\* prefix of one of the operation's image resources and the secrets are equal.
MatchingTokens(toks, project, fp, secret) ==
    {t \in toks : t.project = project /\ HasPrefix(t.fp, fp) /\ t.secret = secret}

\* imageValidSecret's result: whether it returns an operation.
imageValidSecret(toks, project, fp, secret) ==
    MatchingTokens(toks, project, fp, secret) # {}

CancelledToken(t) == [t EXCEPT !.status = "Cancelled"]

\* imageValidSecret's effect: a matched operation that is running is cancelled.
imageValidSecretEffect(toks, project, fp, secret) ==
    {IF t \in MatchingTokens(toks, project, fp, secret) /\ t.status = "Running"
        THEN CancelledToken(t) ELSE t : t \in toks}

\* No operation: the nil *api.Operation.
NoOperation == [project |-> "", fp |-> NoFp, secret |-> NoSecret, status |-> "none"]

\* imageValidSecret, lines 3322-3361, with what it returns: the operation and
\* the error, and the operations it cancelled.  fault is the call that fails:
\* operationsGetByType or operationCancel.  Secrets are random, so at most
\* one operation matches.
ValidSecretCancelsAll(toks, project, fp, secret, fault) ==
    LET matching == MatchingTokens(toks, project, fp, secret)
        running == {t \in toks : t.status = "Running"}
    IN  IF fault = "operations"
        THEN [op |-> NoOperation, err |-> "Failed getting image token operations",
              cancelled |-> {}]
        ELSE IF matching = {} THEN [op |-> NoOperation, err |-> "", cancelled |-> {}]
        ELSE IF fault = "cancel" /\ matching \cap running # {}
        THEN [op |-> NoOperation, err |-> "Failed to cancel operation", cancelled |-> {}]
        ELSE [op |-> CHOOSE t \in matching : TRUE, err |-> "", cancelled |-> running]

ValidSecret(toks, project, fp, secret, fault) ==
    LET matching == MatchingTokens(toks, project, fp, secret)
        running == {t \in toks : t.status = "Running"}
    IN  IF fault = "operations"
        THEN [op |-> NoOperation, err |-> "Failed getting image token operations",
              cancelled |-> {}]
        ELSE IF matching = {} THEN [op |-> NoOperation, err |-> "", cancelled |-> {}]
        ELSE IF fault = "cancel" /\ matching \cap running # {}
        THEN [op |-> NoOperation, err |-> "Failed to cancel operation", cancelled |-> {}]
        ELSE [op |-> CHOOSE t \in matching : TRUE, err |-> "",
              cancelled |-> matching \cap running]

\* createTokenResponse: a token operation with a fresh random secret.
createTokenResponse(toks, project, fp, secret) ==
    toks \cup {[project |-> project, fp |-> fp, secret |-> secret, status |-> "Running"]}

(***************************************************************************)
(* imagesPost: the request until the background operation is created.      *)
(* A request q carries: kind (what the body decodes to), project, bytes    *)
(* (the fingerprint of the uploaded or published content), split, expect   *)
(* (X-Incus-fingerprint), secret (X-Incus-secret), trusted, profile        *)
(* (X-Incus-profiles), alias (X-Incus-aliases), notify (cluster            *)
(* notification) and fault (the step of the handler that fails).           *)
(***************************************************************************)
NoRequest ==
    [kind |-> "none", project |-> "default", bytes |-> FA, split |-> FALSE,
     expect |-> NoFp, secret |-> NoSecret, trusted |-> FALSE, profile |-> "",
     alias |-> NoAlias, notify |-> FALSE, fault |-> "none"]

IdlePost == [pc |-> "idle", q |-> NoRequest, byToken |-> FALSE, exists |-> FALSE, res |-> "none"]

\* The profiles that exist in every project.
ProfileNames == {"default"}

\* imagesPost, lines 1406-1420: who may ingest.
GateOpen(q) == q.trusted \/ (q.secret # NoSecret /\ q.expect # NoFp)

\* imagesPost without the check of the token operation (lines 1424-1432).
ImagesPostOutcomeNoTokenCheck(q, toks) ==
    IF q.fault = "permission" THEN "PermissionFailed"
    ELSE IF ~GateOpen(q) THEN "Forbidden"
    ELSE IF q.fault = "lookup" THEN "LookupFailed"
    ELSE IF q.kind = "push" THEN "Token"
    ELSE "Accepted"

\* What imagesPost answers before it creates the background operation.
ImagesPostOutcome(q, toks) ==
    IF q.fault = "permission" THEN "PermissionFailed"
    ELSE IF ~GateOpen(q) THEN "Forbidden"
    ELSE IF q.fault = "lookup" THEN "LookupFailed"
    ELSE IF ~q.trusted /\ ~imageValidSecret(toks, q.project, q.expect, q.secret)
         THEN "Forbidden"
    ELSE IF q.fault = "mkdir" THEN "MkdirFailed"
    ELSE IF q.fault = "createtemp" THEN "CreateTempFailed"
    ELSE IF q.fault = "budget" THEN "BudgetFailed"
    ELSE IF q.fault = "copy" THEN "CopyFailed"
    ELSE IF q.fault = "seek" THEN "SeekFailed"
    ELSE IF q.kind = "badjson" THEN "BadRequest"
    ELSE IF q.kind = "push" THEN "Token"
    ELSE IF q.kind = "invalid" THEN "InvalidSource"
    ELSE IF q.kind = "instance" /\ q.fault = "forwardseek" THEN "SeekFailed"
    ELSE IF q.kind = "instance" /\ q.fault = "forward" THEN "ForwardFailed"
    ELSE IF q.kind = "instance" /\ q.fault = "remote" THEN "Forwarded"
    ELSE IF q.fault = "opcreate" THEN "OperationFailed"
    ELSE "Accepted"

\* The returns of imagesPost that leave the build directory behind: the one
\* that hands it to the operation, the budget lookup failure (line 1468) and
\* the two seek failures (lines 1479 and 1523), which return without a call
\* of cleanup.
KeepsBuilddir(outcome) == outcome \in {"Accepted", "BudgetFailed", "SeekFailed"}

\* Whether imageValidSecret ran to its end in this request (line 1424).
SecretChecked(q) == GateOpen(q) /\ q.fault \notin {"permission", "lookup"}

RecordCall(c, q, toks) ==
    LET key == <<q.project, q.expect, q.secret>>
        found == imageValidSecret(toks, q.project, q.expect, q.secret)
    IN  [matched |-> IF found THEN c.matched \cup {key} ELSE c.matched,
         again |-> IF found /\ key \in c.matched THEN c.again \cup {key} ELSE c.again]

ImagesPost(r, q) ==
    /\ post[r].pc = "idle"
    /\ q.kind = "push" => nextSecret <= MaxTokens
    /\ LET outcome == ImagesPostOutcome(q, tokens)
           checked == IF SecretChecked(q)
                         THEN imageValidSecretEffect(tokens, q.project, q.expect, q.secret)
                         ELSE tokens
       IN  /\ tokens' = IF outcome = "Token"
                           THEN createTokenResponse(checked, q.project, q.bytes, nextSecret)
                           ELSE checked
           /\ nextSecret' = IF outcome = "Token" THEN nextSecret + 1 ELSE nextSecret
           /\ calls' = IF SecretChecked(q) THEN RecordCall(calls, q, tokens) ELSE calls
           /\ builddirs' = IF KeepsBuilddir(outcome) THEN builddirs \cup {r} ELSE builddirs
           /\ post' = [post EXCEPT ![r] =
                          [pc |-> IF outcome = "Accepted" THEN "run" ELSE "done",
                           q |-> q,
                           byToken |-> SecretChecked(q)
                                         /\ imageValidSecret(tokens, q.project, q.expect, q.secret),
                           exists |-> FALSE,
                           res |-> IF outcome = "Accepted" THEN "none" ELSE outcome]]
    /\ UNCHANGED otherVars
    /\ UNCHANGED <<storeVars, upstream, publishLock, taskMu, opLock, del, refresh,
                   task, peerDeletes>>

(***************************************************************************)
(* The background operation of imagesPost (run, lines 1540-1655).  Its     *)
(* deferred cleanup removes the build directory on every return.           *)
(***************************************************************************)
Finished(p, result) == [p EXCEPT !.pc = "done", !.res = result]

\* getImgPostInfo without the comparison with X-Incus-fingerprint.
GetImgPostInfoErrorNoCompare(q) ==
    IF q.split /\ q.fault = "part" THEN "InvalidMultipart"
    ELSE IF q.fault = "meta" THEN "MetadataFailed"
    ELSE IF q.fault = "move" THEN "MoveFailed"
    ELSE "none"

\* getImgPostInfo up to the profile lookup (lines 1002-1221): hash the body,
\* compare with the expected fingerprint, read the metadata, move the file(s)
\* to images/<fp>[.rootfs], resolve the profiles.
GetImgPostInfoError(q) ==
    IF q.split /\ q.fault = "part" THEN "InvalidMultipart"
    ELSE IF q.expect # NoFp /\ q.expect # q.bytes THEN "FingerprintMismatch"
    ELSE IF q.fault = "meta" THEN "MetadataFailed"
    ELSE IF q.fault = "move" THEN "MoveFailed"
    ELSE IF q.split /\ q.fault = "move2" THEN "MoveFailed"
    ELSE IF q.profile # "" /\ q.profile \notin ProfileNames THEN "ProfileMissing"
    ELSE "none"

\* The files getImgPostInfo has moved into images/ when it returns.
GetImgPostInfoMoved(q) ==
    LET e == GetImgPostInfoError(q)
    IN  IF e \in {"InvalidMultipart", "FingerprintMismatch", "MetadataFailed"}
           \/ (e = "MoveFailed" /\ q.fault = "move")
        THEN {}
        ELSE IF q.split /\ e # "MoveFailed" THEN {Blob(q.bytes), Rootfs(q.bytes)}
        ELSE {Blob(q.bytes)}

GetImgPostInfoMove(r) ==
    /\ post[r].pc = "run"
    /\ post[r].q.kind = "upload"
    /\ LET q == post[r].q
           e == GetImgPostInfoError(q)
       IN  /\ files' = files \cup GetImgPostInfoMoved(q)
           /\ IF e = "none"
                 THEN /\ post' = [post EXCEPT ![r].pc = "check"]
                      /\ UNCHANGED builddirs
                 ELSE /\ post' = [post EXCEPT ![r] = Finished(post[r], e)]
                      /\ builddirs' = builddirs \ {r}
    /\ UNCHANGED otherVars
    /\ UNCHANGED <<images, nextId, aliases, profiles, volumes, tokens, nextSecret,
                   upstream, publishLock, taskMu, opLock, del, refresh, task, calls,
                   peerDeletes>>

\* getImgPostInfo, lines 1223-1232: the transaction that reads ImageExists.
GetImgPostInfoExists(r) ==
    /\ post[r].pc = "check"
    /\ IF post[r].q.fault = "exists"
          THEN /\ post' = [post EXCEPT ![r] = Finished(post[r], "DatabaseFailed")]
               /\ builddirs' = builddirs \ {r}
          ELSE /\ post' = [post EXCEPT ![r].pc = "commit",
                                       ![r].exists = ImageExists(images, post[r].q.project,
                                                                 post[r].q.bytes)]
               /\ UNCHANGED builddirs
    /\ UNCHANGED otherVars
    /\ UNCHANGED <<storeVars, tokens, nextSecret, upstream, publishLock, taskMu, opLock,
                   del, refresh, task, calls, peerDeletes>>

\* getImgPostInfo without the return of lines 1234-1236 and with a CreateImage
\* that accepts a fingerprint the project already has.
GetImgPostInfoResultNoCheck(p, imgs) ==
    IF p.q.fault = "create" THEN "CreateFailed" ELSE "none"

\* getImgPostInfo, lines 1234-1262: already exists, or the CreateImage transaction.
GetImgPostInfoResult(p, imgs) ==
    IF p.exists
    THEN IF p.q.notify THEN "none" ELSE "AlreadyExists"
    ELSE IF p.q.fault = "create" THEN "CreateFailed"
    ELSE IF ~CreateImageOk(imgs, p.q.project, p.q.bytes) THEN "Conflict"
    ELSE "none"

\* The profile rows CreateImage writes for the profile ids it is given.
CreatedProfiles(id, q) == IF q.profile = "" THEN {} ELSE {[image |-> id, profile |-> q.profile]}

GetImgPostInfoCommit(r) ==
    /\ post[r].pc = "commit"
    /\ LET p == post[r]
           e == GetImgPostInfoResult(p, images)
           creates == ~p.exists /\ e = "none"
       IN  /\ images' = IF creates
                           THEN images \cup {NewImage(nextId, p.q.project, p.q.bytes, FALSE)}
                           ELSE images
           /\ profiles' = IF creates THEN profiles \cup CreatedProfiles(nextId, p.q) ELSE profiles
           /\ nextId' = IF creates THEN nextId + 1 ELSE nextId
           /\ IF e = "none"
                 THEN /\ post' = [post EXCEPT ![r].pc = "aliases"]
                      /\ UNCHANGED builddirs
                 ELSE /\ post' = [post EXCEPT ![r] = Finished(p, e)]
                      /\ builddirs' = builddirs \ {r}
    /\ UNCHANGED otherVars
    /\ UNCHANGED <<aliases, volumes, files, tokens, nextSecret, upstream, publishLock,
                   taskMu, opLock, del, refresh, task, calls, peerDeletes>>

\* run, lines 1584-1654: the alias transaction, the replica sync, the event.
PostAliasesResult(p, imgs, als) ==
    IF p.q.notify THEN "ok"
    ELSE IF ~ImageExists(imgs, p.q.project, p.q.bytes) THEN "FetchImageFailed"
    ELSE IF p.q.alias # NoAlias
            /\ \E a \in als : a.project = p.q.project /\ a.name = p.q.alias
         THEN "AliasExists"
    ELSE IF p.q.fault = "sync" THEN "SyncFailed"
    ELSE "ok"

PostAliases(r) ==
    /\ post[r].pc = "aliases"
    /\ LET p == post[r]
           e == PostAliasesResult(p, images, aliases)
           target == CHOOSE i \in RecordsOf(images, p.q.project, p.q.bytes) : TRUE
       IN  /\ aliases' = IF e \in {"ok", "SyncFailed"} /\ ~p.q.notify /\ p.q.alias # NoAlias
                            THEN aliases \cup {[project |-> p.q.project, name |-> p.q.alias,
                                                image |-> target.id]}
                            ELSE aliases
           /\ post' = [post EXCEPT ![r] = Finished(p, e)]
           /\ builddirs' = builddirs \ {r}
    /\ UNCHANGED otherVars
    /\ UNCHANGED <<images, nextId, profiles, volumes, files, tokens, nextSecret, upstream,
                   publishLock, taskMu, opLock, del, refresh, task, calls, peerDeletes>>

(***************************************************************************)
(* Instance publish: imgPostInstanceInfo under imagePublishLock            *)
(* (run, lines 1559-1561).                                                 *)
(***************************************************************************)
\* The publish path without the wait for imagePublishLock.
PublishLockNoWait(r) ==
    /\ post[r].pc = "run"
    /\ post[r].q.kind = "instance"
    /\ publishLock' = <<"post", r>>
    /\ post' = [post EXCEPT ![r].pc = "export"]
    /\ UNCHANGED otherVars
    /\ UNCHANGED <<storeVars, builddirs, tokens, nextSecret, upstream, taskMu, opLock,
                   del, refresh, task, calls, peerDeletes>>

PublishLock(r) ==
    /\ post[r].pc = "run"
    /\ post[r].q.kind = "instance"
    /\ publishLock = Nobody
    /\ publishLock' = <<"post", r>>
    /\ post' = [post EXCEPT ![r].pc = "export"]
    /\ UNCHANGED otherVars
    /\ UNCHANGED <<storeVars, builddirs, tokens, nextSecret, upstream, taskMu, opLock,
                   del, refresh, task, calls, peerDeletes>>

\* imgPostInstanceInfo, lines 509-789: check the source, export and compress the
\* instance into the build directory, look the fingerprint up in the project.
ImgPostInstanceExportResult(q, imgs) ==
    IF q.fault = "export" THEN "ExportFailed"
    ELSE IF q.fault = "exists" THEN "DatabaseFailed"
    ELSE IF ImageExists(imgs, q.project, q.bytes) THEN "AlreadyExists"
    ELSE "none"

ImgPostInstanceExport(r) ==
    /\ post[r].pc = "export"
    /\ LET e == ImgPostInstanceExportResult(post[r].q, images)
       IN  post' = [post EXCEPT ![r].pc = IF e = "none" THEN "move" ELSE "unlock",
                                ![r].res = e]
    /\ UNCHANGED otherVars
    /\ UNCHANGED <<storeVars, builddirs, tokens, nextSecret, upstream, publishLock, taskMu,
                   opLock, del, refresh, task, calls, peerDeletes>>

\* imgPostInstanceInfo, lines 791-804: move the file(s) to images/<fp>[.rootfs].
ImgPostInstanceMoved(q) ==
    IF q.fault = "move" THEN {}
    ELSE IF q.split /\ q.fault # "move2" THEN {Blob(q.bytes), Rootfs(q.bytes)}
    ELSE {Blob(q.bytes)}

ImgPostInstanceMove(r) ==
    /\ post[r].pc = "move"
    /\ LET q == post[r].q
           failed == q.fault = "move" \/ (q.split /\ q.fault = "move2")
       IN  /\ files' = files \cup ImgPostInstanceMoved(q)
           /\ post' = [post EXCEPT ![r].pc = IF failed THEN "unlock" ELSE "create",
                                   ![r].res = IF failed THEN "MoveFailed" ELSE "none"]
    /\ UNCHANGED otherVars
    /\ UNCHANGED <<images, nextId, aliases, profiles, volumes, builddirs, tokens,
                   nextSecret, upstream, publishLock, taskMu, opLock, del, refresh, task,
                   calls, peerDeletes>>

\* imgPostInstanceInfo, lines 809-817: the CreateImage transaction.
ImgPostInstanceCreateResult(q, imgs) ==
    IF q.fault = "create" THEN "CreateFailed"
    ELSE IF ~CreateImageOk(imgs, q.project, q.bytes) THEN "Conflict"
    ELSE "none"

ImgPostInstanceCreate(r) ==
    /\ post[r].pc = "create"
    /\ LET q == post[r].q
           e == ImgPostInstanceCreateResult(q, images)
       IN  /\ images' = IF e = "none"
                           THEN images \cup {NewImage(nextId, q.project, q.bytes, FALSE)}
                           ELSE images
           /\ nextId' = IF e = "none" THEN nextId + 1 ELSE nextId
           /\ post' = [post EXCEPT ![r].pc = "unlock", ![r].res = e]
    /\ UNCHANGED otherVars
    /\ UNCHANGED <<aliases, profiles, volumes, files, builddirs, tokens, nextSecret,
                   upstream, publishLock, taskMu, opLock, del, refresh, task, calls,
                   peerDeletes>>

PublishUnlock(r) ==
    /\ post[r].pc = "unlock"
    /\ publishLock' = Nobody
    /\ IF post[r].res = "none"
          THEN /\ post' = [post EXCEPT ![r].pc = "aliases"]
               /\ UNCHANGED builddirs
          ELSE /\ post' = [post EXCEPT ![r].pc = "done"]
               /\ builddirs' = builddirs \ {r}
    /\ UNCHANGED otherVars
    /\ UNCHANGED <<storeVars, tokens, nextSecret, upstream, taskMu, opLock, del, refresh,
                   task, calls, peerDeletes>>

(***************************************************************************)
(* Remote and URL pull: imgPostRemoteInfo, imgPostURLInfo.  Both download  *)
(* through ImageDownload, which holds imageOperationLock(fp) while it      *)
(* writes images/<fp> and the record.                                      *)
(***************************************************************************)
ImageDownloadFiles(fs, fp) == fs \cup {Blob(fp)}

ImageDownloadImages(imgs, id, project, fp, auto) ==
    IF ImageExists(imgs, project, fp) THEN imgs
    ELSE imgs \cup {NewImage(id, project, fp, auto)}

ImgPostRemoteInfo(r) ==
    /\ post[r].pc = "run"
    /\ post[r].q.kind \in {"image", "url"}
    /\ opLock[post[r].q.bytes] = Nobody
    /\ LET q == post[r].q
       IN  IF q.fault = "download"
           THEN /\ post' = [post EXCEPT ![r] = Finished(post[r], "DownloadFailed")]
                /\ builddirs' = builddirs \ {r}
                /\ UNCHANGED <<images, nextId, files>>
           ELSE /\ images' = ImageDownloadImages(images, nextId, q.project, q.bytes, FALSE)
                /\ nextId' = IF ImageExists(images, q.project, q.bytes)
                                THEN nextId ELSE nextId + 1
                /\ files' = ImageDownloadFiles(files, q.bytes)
                /\ post' = [post EXCEPT ![r].pc = "aliases"]
                /\ UNCHANGED builddirs
    /\ UNCHANGED otherVars
    /\ UNCHANGED <<aliases, profiles, volumes, tokens, nextSecret, upstream, publishLock,
                   taskMu, opLock, del, refresh, task, calls, peerDeletes>>

(***************************************************************************)
(* imageDelete.  A request names a project and a fingerprint prefix; the   *)
(* handler resolves the image, then its operation deletes it under         *)
(* imageOperationLock(fingerprint).                                        *)
(***************************************************************************)
\* tx.GetImage: the records of the project whose fingerprint starts with the
\* one asked for; the lookup succeeds when there is exactly one.
GetImage(imgs, project, prefix) == {i \in imgs : i.project = project /\ HasPrefix(i.fp, prefix)}

IdleDelete == [pc |-> "idle", project |-> "default", fp |-> NoFp, id |-> NoImage,
               notify |-> FALSE, fault |-> "none", referenced |-> FALSE, res |-> "none"]

DeleteFinished(x, result) == [x EXCEPT !.pc = "unlock", !.res = result]

\* imageDelete, lines 3098-3120 and 3273-3281: resolve the image, create the operation.
ImageDelete(d, q) ==
    /\ del[d].pc = "idle"
    /\ LET found == GetImage(images, q.project, q.fp)
           i == CHOOSE i \in found : TRUE
       IN  del' = [del EXCEPT ![d] =
                      IF Cardinality(found) # 1
                      THEN [IdleDelete EXCEPT !.pc = "done", !.project = q.project,
                                              !.notify = q.notify, !.fault = q.fault,
                                              !.res = "NotFound"]
                      ELSE [IdleDelete EXCEPT !.pc = "lock", !.project = q.project,
                                              !.fp = i.fp, !.id = i.id,
                                              !.notify = q.notify, !.fault = q.fault]]
    /\ UNCHANGED otherVars
    /\ UNCHANGED <<storeVars, builddirs, tokens, nextSecret, upstream, publishLock, taskMu,
                   opLock, post, refresh, task, calls, peerDeletes>>

\* An imageDelete that does not wait for imageOperationLock.
DeleteLockNoWait(d) ==
    /\ del[d].pc = "lock"
    /\ opLock' = [opLock EXCEPT ![del[d].fp] = <<"del", d>>]
    /\ del' = [del EXCEPT ![d].pc = "exists"]
    /\ UNCHANGED otherVars
    /\ UNCHANGED <<storeVars, builddirs, tokens, nextSecret, upstream, publishLock, taskMu,
                   post, refresh, task, calls, peerDeletes>>

\* do, lines 3125-3130: imageOperationLock(imgInfo.Fingerprint).
DeleteLock(d) ==
    /\ del[d].pc = "lock"
    /\ opLock[del[d].fp] = Nobody
    /\ opLock' = [opLock EXCEPT ![del[d].fp] = <<"del", d>>]
    /\ del' = [del EXCEPT ![d].pc = "exists"]
    /\ UNCHANGED otherVars
    /\ UNCHANGED <<storeVars, builddirs, tokens, nextSecret, upstream, publishLock, taskMu,
                   post, refresh, task, calls, peerDeletes>>

\* do, lines 3132-3147: the image must still exist in the project.
DeleteExistsResult(x, imgs) ==
    IF x.fault = "exists" THEN "DatabaseFailed"
    ELSE IF ~ImageExists(imgs, x.project, x.fp) THEN "ImageNotFound"
    ELSE "none"

DeleteExists(d) ==
    /\ del[d].pc = "exists"
    /\ LET e == DeleteExistsResult(del[d], images)
       IN  del' = [del EXCEPT ![d] = IF e # "none" THEN DeleteFinished(del[d], e)
                                     ELSE IF del[d].notify THEN [del[d] EXCEPT !.pc = "pools"]
                                     ELSE [del[d] EXCEPT !.pc = "refs"]]
    /\ UNCHANGED otherVars
    /\ UNCHANGED <<storeVars, builddirs, tokens, nextSecret, upstream, publishLock, taskMu,
                   opLock, post, refresh, task, calls, peerDeletes>>

\* tx.DeleteImage(id) fails when the row is gone.
DeleteImageOk(imgs, id) == \E i \in imgs : i.id = id

\* A delete that never sees the image referenced by another project.
DeleteRefsUnreferenced(d) ==
    /\ del[d].pc = "refs"
    /\ del' = [del EXCEPT ![d].pc = "notify"]
    /\ UNCHANGED otherVars
    /\ UNCHANGED <<storeVars, builddirs, tokens, nextSecret, upstream, publishLock, taskMu,
                   opLock, post, refresh, task, calls, peerDeletes>>

\* do, lines 3149-3177: one transaction reads whether another project references
\* the fingerprint and, if so, deletes this project's record; then do returns.
DeleteRefs(d) ==
    /\ del[d].pc = "refs"
    /\ LET x == del[d]
           referenced == ImageIsReferencedByOtherProjects(images, x.project, x.fp)
           ok == x.fault # "refs" /\ (referenced => DeleteImageOk(images, x.id))
           deletes == referenced /\ ok
       IN  /\ images' = IF deletes THEN DeleteImageRows(images, x.id) ELSE images
           /\ aliases' = IF deletes THEN DeleteAliasRows(aliases, x.id) ELSE aliases
           /\ profiles' = IF deletes THEN DeleteProfileRows(profiles, x.id) ELSE profiles
           /\ del' = [del EXCEPT ![d] =
                         IF ~ok THEN DeleteFinished(x, "DatabaseFailed")
                         ELSE IF referenced
                              THEN [DeleteFinished(x, "ok") EXCEPT !.referenced = TRUE]
                         ELSE [x EXCEPT !.pc = "notify"]]
    /\ UNCHANGED otherVars
    /\ UNCHANGED <<nextId, volumes, files, builddirs, tokens, nextSecret, upstream,
                   publishLock, taskMu, opLock, post, refresh, task, calls, peerDeletes>>

\* do, lines 3179-3198: every peer is asked to delete the image.
DeleteNotifyPeers(d) ==
    /\ del[d].pc = "notify"
    /\ IF del[d].fault = "peer"
          THEN /\ del' = [del EXCEPT ![d] = DeleteFinished(del[d], "PeerFailed")]
               /\ UNCHANGED peerDeletes
          ELSE /\ del' = [del EXCEPT ![d].pc = "pools"]
               /\ peerDeletes' = peerDeletes \cup
                                    {[by |-> d, project |-> del[d].project, fp |-> del[d].fp]}
    /\ UNCHANGED otherVars
    /\ UNCHANGED <<storeVars, builddirs, tokens, nextSecret, upstream, publishLock, taskMu,
                   opLock, post, refresh, task, calls>>

\* do, lines 3219-3255: the image volume of every pool that has one is deleted.
DeletePools(d) ==
    /\ del[d].pc = "pools"
    /\ LET x == del[d]
           failed == x.fault = "pool" /\ \E v \in volumes : v[2] = x.fp
       IN  /\ volumes' = IF failed THEN volumes ELSE {v \in volumes : v[2] # x.fp}
           /\ del' = [del EXCEPT ![d] = IF failed THEN DeleteFinished(x, "PoolFailed")
                                         ELSE IF x.notify THEN [x EXCEPT !.pc = "disk"]
                                         ELSE [x EXCEPT !.pc = "row"]]
    /\ UNCHANGED otherVars
    /\ UNCHANGED <<images, nextId, aliases, profiles, files, builddirs, tokens, nextSecret,
                   upstream, publishLock, taskMu, opLock, post, refresh, task, calls,
                   peerDeletes>>

\* do, lines 3257-3265: the DeleteImage transaction.
DeleteRow(d) ==
    /\ del[d].pc = "row"
    /\ LET x == del[d]
           ok == x.fault # "row" /\ DeleteImageOk(images, x.id)
       IN  /\ images' = IF ok THEN DeleteImageRows(images, x.id) ELSE images
           /\ aliases' = IF ok THEN DeleteAliasRows(aliases, x.id) ELSE aliases
           /\ profiles' = IF ok THEN DeleteProfileRows(profiles, x.id) ELSE profiles
           /\ del' = [del EXCEPT ![d] = IF ok THEN [x EXCEPT !.pc = "disk"]
                                         ELSE DeleteFinished(x, "DatabaseFailed")]
    /\ UNCHANGED otherVars
    /\ UNCHANGED <<nextId, volumes, files, builddirs, tokens, nextSecret, upstream,
                   publishLock, taskMu, opLock, post, refresh, task, calls, peerDeletes>>

\* imageDeleteFromDisk, lines 3283-3302.
imageDeleteFromDisk(fs, fp) == fs \ {Blob(fp), Rootfs(fp)}

DeleteFromDisk(d) ==
    /\ del[d].pc = "disk"
    /\ files' = imageDeleteFromDisk(files, del[d].fp)
    /\ del' = [del EXCEPT ![d] = DeleteFinished(del[d], "ok")]
    /\ UNCHANGED otherVars
    /\ UNCHANGED <<images, nextId, aliases, profiles, volumes, builddirs, tokens,
                   nextSecret, upstream, publishLock, taskMu, opLock, post, refresh, task,
                   calls, peerDeletes>>

\* The deferred unlock of imageOperationLock: do returns.
DeleteUnlock(d) ==
    /\ del[d].pc = "unlock"
    /\ opLock' = [opLock EXCEPT ![del[d].fp] = Nobody]
    /\ del' = [del EXCEPT ![d].pc = "done"]
    /\ UNCHANGED otherVars
    /\ UNCHANGED <<storeVars, builddirs, tokens, nextSecret, upstream, publishLock, taskMu,
                   post, refresh, task, calls, peerDeletes>>

(***************************************************************************)
(* imageRefresh and autoUpdateImage.  A refresh has the image it works on  *)
(* (project, fp, id), pools (the pools still to update), pool (the one of  *)
(* the current iteration), hash, newInfo and newID (autoUpdateImage's      *)
(* variables), manual (the refresh has an operation: imageRefresh called   *)
(* autoUpdateImage, not the hourly loop), refreshed (the image-refreshed   *)
(* events the call has sent),                                              *)
(* and before and beforeDefault (the alias names and the default-profile   *)
(* link of the image when autoUpdateImage was called).                     *)
(***************************************************************************)
\* The values of images.remote_cache_expiry and images.auto_update_interval
\* the model uses, and what strconv.ParseInt makes of them (lines 2547 and
\* 2937); any other string is an error.
NoExpiry == ""
ExpiryValues == ("-1" :> (-1)) @@ ("0" :> 0) @@ ("1" :> 1) @@ ("6" :> 6)
ParseIntOk(str) == str \in DOMAIN ExpiryValues
ParseInt(str) == ExpiryValues[str]

\* What autoUpdateImage reads before it does anything else: the global
\* images.auto_update_interval, the value of each project (NoExpiry when it
\* has none), and the minutes since the daemon started.
NoClock ==
    [global |-> 0, config |-> [p \in Projects |-> NoExpiry], elapsed |-> 0]

\* int64(math.Round(now.Sub(s.StartTime).Hours())), line 2561: the hours, a
\* half hour rounded up.
HalfHour == 30
ElapsedHours(minutes) == (minutes + HalfHour) \div (2 * HalfHour)

\* Line 2547: a value that does not parse is an error.
IntervalError(clock, project) ==
    clock.config[project] # NoExpiry /\ ~ParseIntOk(clock.config[project])

\* Lines 2546-2553: the interval of the project, else the global one.
AutoUpdateIntervalGlobal(clock, project) == clock.global

AutoUpdateInterval(clock, project) ==
    IF clock.config[project] # NoExpiry THEN ParseInt(clock.config[project])
    ELSE clock.global

\* Lines 2529-2565: autoUpdateImage returns nil, nil at once.
IntervalSkips(manual, clock, project) ==
    LET interval == AutoUpdateInterval(clock, project)
    IN  ~manual /\ (interval <= 0 \/ ElapsedHours(clock.elapsed) % interval # 0)

IdleRefresh ==
    [pc |-> "idle", project |-> "default", fp |-> NoFp, id |-> NoImage, fault |-> "none",
     pools |-> {}, pool |-> NoPool, hash |-> NoFp, newInfo |-> NoFp, newID |-> NoImage,
     before |-> {},
     beforeDefault |-> FALSE, res |-> "none", manual |-> TRUE, refreshed |-> 0,
     clock |-> NoClock]

\* imageRefresh, lines 4907-4941: resolve the image; the operation then runs
\* and calls autoUpdateImage with manual true, which skips the interval.
ImageRefresh(u, q) ==
    /\ refresh[u].pc = "idle"
    /\ LET found == GetImage(images, q.project, q.fp)
           i == CHOOSE i \in found : TRUE
       IN  refresh' = [refresh EXCEPT ![u] =
                          IF Cardinality(found) # 1
                          THEN [IdleRefresh EXCEPT !.pc = "done", !.project = q.project,
                                                   !.fault = q.fault, !.res = "NotFound"]
                          ELSE IF IntervalSkips(TRUE, q.clock, q.project)
                          THEN [IdleRefresh EXCEPT !.pc = "done", !.project = q.project,
                                                   !.fp = i.fp, !.id = i.id,
                                                   !.fault = q.fault, !.clock = q.clock,
                                                   !.res = "unchanged"]
                          ELSE [IdleRefresh EXCEPT !.pc = "source", !.project = q.project,
                                                   !.fp = i.fp, !.id = i.id,
                                                   !.fault = q.fault, !.clock = q.clock]]
    /\ UNCHANGED otherVars
    /\ UNCHANGED <<storeVars, builddirs, tokens, nextSecret, upstream, publishLock, taskMu,
                   opLock, post, del, task, calls, peerDeletes>>

\* tx.GetImageSource(id): the images pulled from a remote have a source; they
\* are the auto-update images of the stores modelled here.
GetImageSourceOk(imgs, id) == \E i \in imgs : i.id = id /\ i.auto

\* autoUpdateImage, lines 2567-2603: read the image source and the pools that
\* have a volume of the image; without such a pool, one iteration for the
\* base store.
PoolsWithImage(vols, fp) == {v[1] : v \in {w \in vols : w[2] = fp}}

RefreshSource(u) ==
    /\ refresh[u].pc = "source"
    /\ LET x == refresh[u]
           poolNames == PoolsWithImage(volumes, x.fp)
       IN  refresh' = [refresh EXCEPT ![u] =
                          IF x.fault = "source" \/ ~GetImageSourceOk(images, x.id)
                          THEN [x EXCEPT !.pc = "done", !.res = "SourceFailed"]
                          ELSE [x EXCEPT !.pc = "download",
                                         !.pools = IF poolNames = {} THEN {NoPool}
                                                   ELSE poolNames,
                                         !.hash = x.fp,
                                         !.before = {a.name : a \in {b \in aliases :
                                                                       b.image = x.id}},
                                         !.beforeDefault =
                                             [image |-> x.id, profile |-> "default"]
                                                 \in profiles]]
    /\ UNCHANGED otherVars
    /\ UNCHANGED <<storeVars, builddirs, tokens, nextSecret, upstream, publishLock, taskMu,
                   opLock, post, del, task, calls, peerDeletes>>

\* The loop of lines 2624-2727 goes on to the next pool, or ends.
NextPool(x) ==
    [x EXCEPT !.pools = x.pools \ {x.pool},
              !.pc = IF x.pools \ {x.pool} = {} THEN "finish" ELSE "download"]

\* One iteration up to line 2654: ImageDownload of what the remote alias
\* points to now, into the project and onto the pool.
RefreshDownload(u, pool) ==
    /\ refresh[u].pc = "download"
    /\ pool \in refresh[u].pools
    /\ opLock[upstream] = Nobody
    /\ LET x == [refresh[u] EXCEPT !.pool = pool]
       IN  IF x.fault = "download"
           THEN /\ refresh' = [refresh EXCEPT ![u] = NextPool([x EXCEPT !.newInfo = NoFp])]
                /\ UNCHANGED <<images, nextId, files, volumes>>
           ELSE /\ images' = ImageDownloadImages(images, nextId, x.project, upstream, TRUE)
                /\ nextId' = IF ImageExists(images, x.project, upstream)
                                THEN nextId ELSE nextId + 1
                /\ files' = ImageDownloadFiles(files, upstream)
                /\ volumes' = IF pool = NoPool THEN volumes
                               ELSE volumes \cup {<<pool, upstream>>}
                /\ refresh' = [refresh EXCEPT ![u] =
                                  IF upstream = x.fp
                                  THEN NextPool([x EXCEPT !.newInfo = upstream,
                                                          !.hash = upstream])
                                  ELSE [x EXCEPT !.newInfo = upstream, !.hash = upstream,
                                                 !.pc = "stitch"]]
    /\ UNCHANGED otherVars
    /\ UNCHANGED <<aliases, profiles, builddirs, tokens, nextSecret, upstream, publishLock,
                   taskMu, opLock, post, del, task, calls, peerDeletes>>

\* Lines 2656-2665 of the iteration: the record of the new fingerprint in the
\* project.
RefreshGetImage(u) ==
    /\ refresh[u].pc = "stitch"
    /\ LET x == refresh[u]
           new == CHOOSE i \in RecordsOf(images, x.project, x.hash) : TRUE
       IN  refresh' = [refresh EXCEPT ![u] =
                          IF x.fault = "getimage" \/ ~ImageExists(images, x.project, x.hash)
                          THEN NextPool(x)
                          ELSE [x EXCEPT !.newID = new.id, !.pc = "move"]]
    /\ UNCHANGED otherVars
    /\ UNCHANGED <<storeVars, builddirs, tokens, nextSecret, upstream, publishLock, taskMu,
                   opLock, post, del, task, calls, peerDeletes>>

\* tx.MoveImageAlias(id, newID)
MoveImageAlias(als, id, newID) ==
    {IF a.image = id THEN [a EXCEPT !.image = newID] ELSE a : a \in als}

\* The alias rows reference the images table: MoveImageAlias fails when it
\* would leave a row pointing to a record that is gone.
MoveImageAliasOk(imgs, als, id, newID) ==
    (\E a \in als : a.image = id) => DeleteImageOk(imgs, newID)

\* tx.CopyDefaultImageProfiles(id, newID)
CopyDefaultImageProfiles(prs, id, newID) ==
    prs \cup {[image |-> newID, profile |-> p.profile] :
                 p \in {r \in prs : r.image = id /\ r.profile = "default"}}

\* How far the rest of the iteration gets (lines 2667-2711): each failing
\* step but CopyDefaultImageProfiles ends the iteration.
StitchStops(x, imgs, als) ==
    IF x.fault = "lastuse" THEN "lastuse"
    ELSE IF x.fault = "alias" \/ ~MoveImageAliasOk(imgs, als, x.id, x.newID) THEN "alias"
    ELSE IF x.fault = "pool" /\ x.pool # NoPool THEN "pool"
    ELSE "none"

\* The rest of one iteration, lines 2667-2726: carry the last-use date over,
\* move the aliases, copy the default profiles, delete the old volume of the
\* pool.
RefreshStitch(u) ==
    /\ refresh[u].pc = "move"
    /\ LET x == refresh[u]
           stop == StitchStops(x, images, aliases)
       IN  /\ aliases' = IF stop \in {"pool", "none"}
                            THEN MoveImageAlias(aliases, x.id, x.newID) ELSE aliases
           /\ profiles' = IF stop \in {"pool", "none"} /\ x.fault # "profiles"
                                /\ DeleteImageOk(images, x.newID)
                             THEN CopyDefaultImageProfiles(profiles, x.id, x.newID)
                             ELSE profiles
           /\ volumes' = IF stop = "none" THEN volumes \ {<<x.pool, x.fp>>} ELSE volumes
           /\ refresh' = [refresh EXCEPT ![u] = NextPool(x)]
    /\ UNCHANGED otherVars
    /\ UNCHANGED <<images, nextId, files, builddirs, tokens, nextSecret, upstream,
                   publishLock, taskMu, opLock, post, del, task, calls, peerDeletes>>

\* setRefreshResult(true), lines 2606-2618: the image-refreshed events it
\* sends.  Without an operation it returns at once.
SetRefreshResultAlways(x) == 1

SetRefreshResult(x) == IF x.manual THEN 1 ELSE 0

\* autoUpdateImage, lines 2729-2759: nothing new, or remove the old files and
\* return the new image.
RefreshFinish(u) ==
    /\ refresh[u].pc = "finish"
    /\ LET x == refresh[u]
       IN  IF x.hash = x.fp
           THEN /\ refresh' = [refresh EXCEPT ![u].pc = "done", ![u].res = "unchanged"]
                /\ UNCHANGED files
           ELSE /\ files' = IF x.fault = "remove" THEN files
                             ELSE files \ {Blob(x.fp), Rootfs(x.fp)}
                /\ refresh' = [refresh EXCEPT ![u].pc = "returned",
                                              ![u].refreshed = SetRefreshResult(x)]
    /\ UNCHANGED otherVars
    /\ UNCHANGED <<images, nextId, aliases, profiles, volumes, builddirs, tokens,
                   nextSecret, upstream, publishLock, taskMu, opLock, post, del, task,
                   calls, peerDeletes>>

\* imageRefresh, lines 4945-4961: with a new image, the old record is deleted.
RefreshDeleteOld(u) ==
    /\ refresh[u].pc = "returned"
    /\ refresh[u].manual
    /\ LET x == refresh[u]
           deletes == x.newInfo # NoFp /\ DeleteImageOk(images, x.id)
       IN  /\ images' = IF deletes THEN DeleteImageRows(images, x.id) ELSE images
           /\ aliases' = IF deletes THEN DeleteAliasRows(aliases, x.id) ELSE aliases
           /\ profiles' = IF deletes THEN DeleteProfileRows(profiles, x.id) ELSE profiles
           /\ refresh' = [refresh EXCEPT ![u].pc = "done",
                                         ![u].res = IF x.newInfo # NoFp THEN "refreshed"
                                                    ELSE "unchanged"]
    /\ UNCHANGED otherVars
    /\ UNCHANGED <<nextId, volumes, files, builddirs, tokens, nextSecret, upstream,
                   publishLock, taskMu, opLock, post, del, task, calls, peerDeletes>>

(***************************************************************************)
(* autoUpdateImages, the hourly loop (lines 2172-2319).  It has pc, all    *)
(* (the auto-update records read at the start), fps (the fingerprints      *)
(* still to do), fp, todo (the records of fp still to do), id (the record  *)
(* autoUpdateImage is called for), deleteIDs, newImage, and as history     *)
(* replaced (the records deleted for a new image) and refreshed (the       *)
(* image-refreshed events sent, by record), clock (what the last call of   *)
(* autoUpdateImage read) and round (the selections of the members for the  *)
(* fingerprint).  The calls of autoUpdateImage                             *)
(* are the refresh AutoCall.  The cancellation of the context and          *)
(* distributeImage are left out: one server holds the images.              *)
(***************************************************************************)
AutoCall == 1

\* The slot of the manual refresh that runs next to the loop.
ManualCall == 2

\* The cluster members, by node id.  The loop followed in full is the one of
\* LocalMember; of the loops of the other members the model follows the
\* selection only.  round holds, by member, what its last selection read and
\* how it ended.
MaxHolders == 3
MemberIds == 1..MaxHolders
LocalMember == 1

NoRound == [res |-> "none", holders |-> {}, count |-> 0]

RECURSIVE SortInt64(_)
SortInt64(set) ==
    IF set = {} THEN <<>>
    ELSE LET least == CHOOSE x \in set : \A y \in set : x <= y
         IN  <<least>> \o SortInt64(set \ {least})

\* The pseudo-random index a seed gives for a list of n entries: the same for
\* the same seed and n.
StableIndex(seed, n) == seed % n

\* localUtil.GetStableRandomInt64FromList(seed, list): the entry of the
\* sorted list at the index the seed gives.
GetStableRandomInt64FromListAsRead(seed, list) == list[StableIndex(seed, Len(list)) + 1]

GetStableRandomInt64FromList(seed, list) ==
    SortInt64({list[n] : n \in DOMAIN list})[StableIndex(seed, Len(list)) + 1]

\* Lines 2197-2250: how the selection for a fingerprint ends on the member
\* self, which read the holders nodes and has count records of the
\* fingerprint.
FingerprintOutcome(self, nodeIDs, count, fault) ==
    IF fault = "nodeIDs" THEN "failed"
    ELSE IF Len(nodeIDs) > 1 /\ fault = "address" THEN "failed"
    ELSE IF Len(nodeIDs) > 1 /\ self # GetStableRandomInt64FromList(count, nodeIDs) THEN "skipped"
    ELSE "update"

IdleAuto ==
    [pc |-> "idle", all |-> {}, fps |-> {}, fp |-> NoFp, todo |-> {}, id |-> NoImage,
     deleteIDs |-> {}, newImage |-> NoFp, replaced |-> {}, refreshed |-> <<>>,
     clock |-> NoClock, round |-> [m \in MemberIds |-> NoRound]]

\* Lines 2173-2192: the auto-update records, by fingerprint.
AutoUpdateStart(fault) ==
    /\ autoUpdate.pc = "idle"
    /\ LET all == {i \in images : i.auto}
       IN  autoUpdate' = IF fault = "db" THEN [autoUpdate EXCEPT !.pc = "done"]
                   ELSE [autoUpdate EXCEPT !.pc = "fingerprint", !.all = all,
                                     !.fps = {i.fp : i \in all}]
    /\ UNCHANGED notAuto
    /\ UNCHANGED imageVars

\* Lines 2194-2253: the next fingerprint; it is skipped when the members that
\* have the image cannot be read or another member is to update it.
AutoUpdateFingerprint(fp, nodeIDs, fault) ==
    /\ autoUpdate.pc = "fingerprint"
    /\ autoUpdate.fps # {}
    /\ fp \in autoUpdate.fps
    /\ LET records == {i \in autoUpdate.all : i.fp = fp}
           res == FingerprintOutcome(LocalMember, nodeIDs, Cardinality(records), fault)
           seen == [autoUpdate EXCEPT !.round[LocalMember] =
                       [res |-> res, holders |-> {nodeIDs[n] : n \in DOMAIN nodeIDs},
                        count |-> Cardinality(records)]]
       IN  autoUpdate' = IF res # "update" THEN [seen EXCEPT !.fps = autoUpdate.fps \ {fp}]
                         ELSE [seen EXCEPT !.pc = "image", !.fp = fp,
                                           !.todo = {i.id : i \in records},
                                           !.deleteIDs = {}, !.newImage = NoFp]
    /\ UNCHANGED notAuto
    /\ UNCHANGED imageVars

\* Lines 2184-2250 in the loop of another member: it reads the auto-update
\* records of the fingerprint and the holders, and selects.
PeerFingerprint(m, fp, nodeIDs, fault) ==
    /\ m # LocalMember
    /\ autoUpdate.round[m].res = "none"
    /\ LET records == {i \in images : i.auto /\ i.fp = fp}
       IN  /\ records # {}
           /\ autoUpdate' = [autoUpdate EXCEPT !.round[m] =
                  [res |-> FingerprintOutcome(m, nodeIDs, Cardinality(records), fault),
                   holders |-> {nodeIDs[n] : n \in DOMAIN nodeIDs},
                   count |-> Cardinality(records)]]
    /\ UNCHANGED notAuto
    /\ UNCHANGED imageVars

\* The loop over the fingerprints has ended.
AutoUpdateDone ==
    /\ autoUpdate.pc = "fingerprint"
    /\ autoUpdate.fps = {}
    /\ autoUpdate' = [autoUpdate EXCEPT !.pc = "done"]
    /\ UNCHANGED notAuto
    /\ UNCHANGED imageVars

\* Lines 2255-2273 and 2529-2563: the record is read again and
\* autoUpdateImage is called for it, without an operation and not manual.  A
\* failed read or project lookup goes on to the next record; when the update
\* interval of the project is not due, autoUpdateImage returns nil, nil.
AutoUpdateCall(id, fault, clock) ==
    /\ autoUpdate.pc = "image"
    /\ id \in autoUpdate.todo
    /\ refresh[AutoCall].pc = "idle"
    /\ LET image == CHOOSE i \in autoUpdate.all : i.id = id
           next == [autoUpdate EXCEPT !.todo = autoUpdate.todo \ {id}, !.clock = clock]
       IN  IF fault \in {"getimage", "project"} \/ image \notin images
              \/ IntervalError(clock, image.project)
           THEN /\ autoUpdate' = next
                /\ UNCHANGED refresh
           ELSE IF IntervalSkips(FALSE, clock, image.project)
           THEN /\ autoUpdate' = [next EXCEPT !.deleteIDs = autoUpdate.deleteIDs \cup {id}]
                /\ UNCHANGED refresh
           ELSE /\ autoUpdate' = [autoUpdate EXCEPT !.pc = "call", !.id = id,
                                                    !.clock = clock]
                /\ refresh' = [refresh EXCEPT ![AutoCall] =
                                  [IdleRefresh EXCEPT !.pc = "source",
                                                      !.project = image.project,
                                                      !.fp = image.fp, !.id = id,
                                                      !.fault = fault, !.manual = FALSE,
                                                      !.clock = clock]]
    /\ UNCHANGED notAuto
    /\ UNCHANGED <<storeVars, builddirs, tokens, nextSecret, upstream, publishLock, taskMu,
                   opLock, post, del, task, calls, peerDeletes>>

\* Lines 2273-2289: autoUpdateImage has returned.  Without an error the
\* record joins deleteIDs; the first image returned is newImage.
AutoUpdateReturn ==
    /\ autoUpdate.pc = "call"
    /\ refresh[AutoCall].pc \in {"done", "returned"}
    /\ LET x == refresh[AutoCall]
           failed == x.pc = "done" /\ x.res # "unchanged"
           newInfo == IF x.pc = "returned" THEN x.newInfo ELSE NoFp
       IN  autoUpdate' = [autoUpdate EXCEPT
                       !.pc = "image", !.id = NoImage,
                       !.todo = autoUpdate.todo \ {autoUpdate.id},
                       !.deleteIDs = IF failed THEN autoUpdate.deleteIDs
                                     ELSE autoUpdate.deleteIDs \cup {autoUpdate.id},
                       !.newImage = IF autoUpdate.newImage = NoFp THEN newInfo
                                    ELSE autoUpdate.newImage,
                       !.refreshed = autoUpdate.refreshed \o [n \in 1..x.refreshed |-> autoUpdate.id]]
    /\ refresh' = [refresh EXCEPT ![AutoCall] = IdleRefresh]
    /\ UNCHANGED notAuto
    /\ UNCHANGED <<storeVars, builddirs, tokens, nextSecret, upstream, publishLock, taskMu,
                   opLock, post, del, task, calls, peerDeletes>>

\* Lines 2291-2315: with a new image, the records of deleteIDs are deleted;
\* a record that is gone is logged.
AutoUpdateDelete ==
    /\ autoUpdate.pc = "image"
    /\ autoUpdate.todo = {}
    /\ LET ids == IF autoUpdate.newImage = NoFp THEN {} ELSE autoUpdate.deleteIDs
       IN  /\ images' = {i \in images : i.id \notin ids}
           /\ aliases' = {a \in aliases : a.image \notin ids}
           /\ profiles' = {p \in profiles : p.image \notin ids}
           /\ autoUpdate' = [autoUpdate EXCEPT !.pc = "fingerprint", !.fps = autoUpdate.fps \ {autoUpdate.fp},
                                   !.replaced = autoUpdate.replaced \cup
                                                  {i.id : i \in {j \in images : j.id \in ids}}]
    /\ UNCHANGED notAuto
    /\ UNCHANGED <<nextId, volumes, files, builddirs, tokens, nextSecret, upstream,
                   publishLock, taskMu, opLock, post, del, refresh, task, calls,
                   peerDeletes>>

\* The remote publishes a new image under the alias.
UpstreamPublish(fp) ==
    /\ upstream # fp
    /\ upstream' = fp
    /\ UNCHANGED otherVars
    /\ UNCHANGED <<storeVars, builddirs, tokens, nextSecret, publishLock, taskMu, opLock,
                   post, del, refresh, task, calls, peerDeletes>>

(***************************************************************************)
(* imageSyncBetweenNodes.  sync holds the members of the cluster and those *)
(* that have the image (have), which is what GetNodesCount,                *)
(* GetNodesWithImage and GetNodesWithoutImage read, the configured         *)
(* images.minimal_replica (replica), and the run: pc, nodeCount, the       *)
(* iterations done (round), the member picked (target), and as history     *)
(* the holders read at the start (first), the pulls issued (pulls: the     *)
(* target and whether it had the image when picked, held) and the pulls    *)
(* that succeeded (copied).                                                *)
(***************************************************************************)
NoMember == 0

IdleSync ==
    [members |-> {}, have |-> {}, replica |-> 0, pc |-> "idle", nodeCount |-> 0,
     round |-> 0, target |-> NoMember, held |-> FALSE, first |-> {}, pulls |-> <<>>,
     copied |-> 0, res |-> "none"]

SyncFaults == {"none", "count", "holders", "connect", "getimage", "without", "target", "create",
               "wait"}

\* tx.GetNodesWithoutImage, line 5149: the members that do not have the
\* image.
GetNodesWithoutImageAny(members, have) == members

GetNodesWithoutImage(members, have) == members \ have

\* Lines 5073-5083: images.minimal_replica, -1 standing for every member.
DesiredSyncNodeCount(replica, members) ==
    IF replica = -1 THEN Cardinality(members) ELSE replica

\* Lines 5065-5141: the holders are read and counted; a source is picked and
\* the image is read.
ImageSyncBetweenNodes(fault) ==
    /\ sync.pc = "idle"
    /\ LET desired == DesiredSyncNodeCount(sync.replica, sync.members)
           nodeCount == desired - Cardinality(sync.have)
           run == [sync EXCEPT !.first = sync.have, !.round = 0, !.pulls = <<>>,
                               !.copied = 0, !.target = NoMember, !.nodeCount = 0]
       IN  sync' =
             IF (fault = "count" /\ sync.replica = -1) \/ fault = "holders"
             THEN [run EXCEPT !.pc = "done", !.res = "ReadFailed"]
             ELSE IF sync.have = {} \/ nodeCount <= 0
             THEN [run EXCEPT !.pc = "done", !.res = "ok"]
             ELSE IF fault \in {"connect", "getimage"}
             THEN [run EXCEPT !.pc = "done", !.res = "SourceFailed"]
             ELSE [run EXCEPT !.pc = "loop", !.nodeCount = nodeCount, !.res = "none"]
    /\ UNCHANGED <<imageVars, notSync>>

\* Lines 5144-5172: one iteration up to the connection to the target, a
\* member picked among those without the image.
SyncPick(m, fault) ==
    /\ sync.pc = "loop"
    /\ LET addresses == GetNodesWithoutImage(sync.members, sync.have)
       IN  IF sync.round >= sync.nodeCount
           THEN /\ m = NoMember
                /\ sync' = [sync EXCEPT !.pc = "done", !.res = "ok"]
           ELSE IF fault = "without"
           THEN /\ m = NoMember
                /\ sync' = [sync EXCEPT !.pc = "done", !.res = "ReadFailed"]
           ELSE IF addresses = {}
           THEN /\ m = NoMember
                /\ sync' = [sync EXCEPT !.pc = "done", !.res = "ok"]
           ELSE /\ m \in addresses
                /\ sync' = IF fault = "target"
                            THEN [sync EXCEPT !.pc = "done", !.res = "ConnectFailed"]
                            ELSE [sync EXCEPT !.pc = "pull", !.target = m,
                                              !.held = m \in sync.have]
    /\ UNCHANGED <<imageVars, notSync>>

\* Lines 5173-5183: the pull is requested from the target and waited for.
SyncPull(fault) ==
    /\ sync.pc = "pull"
    /\ LET issued == [sync EXCEPT !.pulls = Append(sync.pulls,
                                     <<sync.target, sync.held>>),
                                  !.target = NoMember]
       IN  sync' = IF fault \in {"create", "wait"}
                   THEN [issued EXCEPT !.pc = "done", !.res = "PullFailed"]
                   ELSE [issued EXCEPT !.pc = "loop", !.round = sync.round + 1,
                                       !.copied = sync.copied + 1,
                                       !.have = sync.have \cup {sync.target}]
    /\ UNCHANGED <<imageVars, notSync>>

\* Another request gives a member the image or takes it away while the run
\* goes on.
MemberImage(m, has) ==
    /\ sync.pc \in {"loop", "pull"}
    /\ m \in sync.members
    /\ has # (m \in sync.have)
    /\ sync' = [sync EXCEPT !.have = IF has THEN sync.have \cup {m} ELSE sync.have \ {m}]
    /\ UNCHANGED <<imageVars, notSync>>

(***************************************************************************)
(* imgPostInstanceInfo, lines 648-738: the export of the instance and the  *)
(* compressors.  export holds pc (the position of the function), the       *)
(* compressor goroutines by the file they write (each "none", "running",   *)
(* "returned" or "done"), closed (the pipe writers that were closed),      *)
(* compressErr (the variable the goroutines share: NoError or the file of  *)
(* the compressor whose error it holds), err (the error of c.Export), as   *)
(* history failed (the compressors whose compressFile returned an error),  *)
(* and res (what the function returns).                                    *)
(***************************************************************************)
Compressors == {"meta", "rootfs"}
NoErr == "nil"

IdleExport ==
    [pc |-> "idle", split |-> FALSE, helper |-> [g \in Compressors |-> "none"], closed |-> {},
     compressErr |-> NoErr, err |-> NoErr, failed |-> {}, res |-> "none"]

\* Lines 651 and 682: the files that get a compressor.
Compressed(compress, vm) ==
    IF compress = "none" THEN {}
    ELSE IF vm THEN {"meta"}
    ELSE Compressors

\* Lines 715-719: the writers c.Export writes to.
ExportWriters(x) == IF x.split THEN Compressors ELSE {"meta"}

\* Lines 648-700: the pipes are made and the compressors are started.
ExportStart(compress, vm, split) ==
    /\ export.pc = "idle"
    /\ export' = [IdleExport EXCEPT
                      !.pc = "export", !.split = split,
                      !.helper = [g \in Compressors |->
                                     IF g \in Compressed(compress, vm) THEN "running"
                                     ELSE "none"]]
    /\ UNCHANGED <<imageVars, notExport>>

\* Lines 667 and 691: compressFile returns, with an error at any time, without
\* one when the writer of its pipe was closed; the result is assigned to
\* compressErr.
CompressReturn(g, failed) ==
    /\ export.helper[g] = "running"
    /\ failed \/ g \in export.closed
    /\ export' = [export EXCEPT !.helper[g] = "returned",
                                 !.compressErr = IF failed THEN g ELSE NoErr,
                                 !.failed = IF failed THEN export.failed \cup {g}
                                            ELSE export.failed]
    /\ UNCHANGED <<imageVars, notExport>>

\* Lines 670-672 and 693-695, and the deferred wg.Done: the goroutine closes
\* its writer when compressErr is not nil.
CompressCheck(g) ==
    /\ export.helper[g] = "returned"
    /\ export' = [export EXCEPT !.helper[g] = "done",
                                 !.closed = IF export.compressErr # NoErr
                                            THEN export.closed \cup {g}
                                            ELSE export.closed]
    /\ UNCHANGED <<imageVars, notExport>>

\* c.Export is held up on a pipe nobody reads from any more and nobody
\* closed.
ExportBlocked(x) ==
    \E g \in ExportWriters(x) : x.helper[g] \in {"returned", "done"} /\ g \notin x.closed

\* Lines 715-719: c.Export returns; it fails on a writer that was closed, and
\* may fail by itself.
ExportReturn(failed) ==
    /\ export.pc = "export"
    /\ ~ExportBlocked(export)
    /\ failed \/ ExportWriters(export) \cap export.closed = {}
    /\ export' = [export EXCEPT !.pc = "close",
                                 !.err = IF failed THEN "ExportFailed" ELSE NoErr]
    /\ UNCHANGED <<imageVars, notExport>>

\* Lines 724-725: both writers are closed.
ExportClose ==
    /\ export.pc = "close"
    /\ export' = [export EXCEPT !.pc = "wait", !.closed = Compressors]
    /\ UNCHANGED <<imageVars, notExport>>

\* Lines 731-738: the compression error goes first, the export error second.
ExportError(x) ==
    IF x.compressErr # NoErr THEN x.compressErr
    ELSE IF x.err # NoErr THEN x.err
    ELSE "ok"

\* Lines 726-738: wg.Wait() returns when every compressor is done; the files
\* are closed and the errors are checked.
ExportWait ==
    /\ export.pc = "wait"
    /\ \A g \in Compressors : export.helper[g] \in {"none", "done"}
    /\ export' = [export EXCEPT !.pc = "done", !.res = ExportError(export)]
    /\ UNCHANGED <<imageVars, notExport>>

(***************************************************************************)
(* The maintenance tasks autoUpdateImagesTask, pruneExpiredImagesTask and  *)
(* pruneLeftoverImages: create the operation, take imageTaskMu, start the  *)
(* operation, wait for it, release imageTaskMu on return.  A task has pc   *)
(* (its position), op (its operation: none, pending, running, done) and    *)
(* cancelled (whether the context it hands to Wait has been cancelled).    *)
(***************************************************************************)
Tasks == {"autoUpdate", "pruneExpired", "pruneLeftover"}

\* operations.OperationCreate (lines 2141, 2768, 2887).
TaskCreate(t) ==
    /\ task[t].pc = "idle"
    /\ ~task[t].cancelled
    /\ task' = [task EXCEPT ![t].pc = "created", ![t].op = "pending"]
    /\ UNCHANGED otherVars
    /\ UNCHANGED <<storeVars, builddirs, tokens, nextSecret, upstream, publishLock, taskMu,
                   opLock, post, del, refresh, calls, peerDeletes>>

\* A task that does not wait for imageTaskMu.
TaskLockNoWait(t) ==
    /\ task[t].pc = "created"
    /\ taskMu' = <<"task", t>>
    /\ task' = [task EXCEPT ![t].pc = "locked"]
    /\ UNCHANGED otherVars
    /\ UNCHANGED <<storeVars, builddirs, tokens, nextSecret, upstream, publishLock, opLock,
                   post, del, refresh, calls, peerDeletes>>

\* imageTaskMu.Lock() (lines 2149, 2776, 2894).
TaskLock(t) ==
    /\ task[t].pc = "created"
    /\ taskMu = Nobody
    /\ taskMu' = <<"task", t>>
    /\ task' = [task EXCEPT ![t].pc = "locked"]
    /\ UNCHANGED otherVars
    /\ UNCHANGED <<storeVars, builddirs, tokens, nextSecret, upstream, publishLock, opLock,
                   post, del, refresh, calls, peerDeletes>>

\* op.Start() (lines 2154, 2781, 2899): the operation runs, or Start fails and
\* the task returns.
TaskStart(t, failed) ==
    /\ task[t].pc = "locked"
    /\ task' = [task EXCEPT ![t].pc = IF failed THEN "return" ELSE "waiting",
                            ![t].op = IF failed THEN "none" ELSE "running"]
    /\ UNCHANGED otherVars
    /\ UNCHANGED <<storeVars, builddirs, tokens, nextSecret, upstream, publishLock, taskMu,
                   opLock, post, del, refresh, calls, peerDeletes>>

(***************************************************************************)
(* The run function of pruneLeftoverImages.  An entry of images/ is a file *)
(* of the model ([kind, fp]) or a build directory ([kind "build", r]); its *)
(* name is a string of characters, the hex digits of a fingerprint being   *)
(* the numbers of the model's fingerprints.  leftover holds pc, multi      *)
(* (whether the images volume is on a multi-node pool), images (the        *)
(* fingerprints read from the database), entries (those of the directory   *)
(* still to visit), and as history seen (the entries read) and removed.    *)
(***************************************************************************)
Dot == 0
Letter == 9

BuildDir(r) == [kind |-> "build", r |-> r]

\* images/<fp>, images/<fp>.rootfs and images/incus_build_<r>.
EntryName(entry) ==
    IF entry.kind = "blob" THEN entry.fp
    ELSE IF entry.kind = "rootfs" THEN entry.fp \o <<Dot, Letter>>
    ELSE <<Letter, entry.r>>

\* os.ReadDir of images/, line 2866.
ReadDir(fs, dirs) == fs \cup {BuildDir(r) : r \in dirs}

\* strings.Split(entry.Name(), ".")[0], line 2873.
UpToFirstDotWhole(name) == name

UpToFirstDot(name) ==
    LET dots == {n \in DOMAIN name : name[n] = Dot}
    IN  IF dots = {} THEN name
        ELSE SubSeq(name, 1, (CHOOSE n \in dots : \A m \in dots : n <= m) - 1)

\* Lines 2873-2874: the entry is not the file of an image of the list.
IsLeftover(entry, fingerprints) == UpToFirstDot(EntryName(entry)) \notin fingerprints

\* tx.GetLocalImagesFingerprints, line 2858.
GetLocalImagesFingerprints(imgs) == {i.fp : i \in imgs}

\* The files pruneLeftoverImages keeps (lines 2856-2881): those whose name up
\* to the first dot is the fingerprint of an image record.
LeftoverFilesKept(fs, imgs) ==
    {f \in fs : ~IsLeftover(f, GetLocalImagesFingerprints(imgs))}

IdleLeftover ==
    [pc |-> "idle", multi |-> FALSE, images |-> {}, entries |-> {}, seen |-> {},
     removed |-> {}, res |-> "none"]

LeftoverFaults == {"none", "config", "split", "pool", "images", "readdir", "remove"}

\* Lines 2816-2852: the node configuration is read; with an images volume
\* on a pool whose driver is multi-node the run ends at once.
LeftoverStart(pool, multiNode, fault) ==
    /\ leftover.pc = "idle"
    /\ leftover' =
          IF fault = "config" \/ (pool # NoPool /\ fault \in {"split", "pool"})
          THEN [IdleLeftover EXCEPT !.pc = "done", !.res = "ConfigFailed"]
          ELSE IF pool # NoPool /\ multiNode
          THEN [IdleLeftover EXCEPT !.pc = "done", !.multi = TRUE, !.res = "ok"]
          ELSE [IdleLeftover EXCEPT !.pc = "images"]
    /\ UNCHANGED <<imageVars, notLeftover>>

\* Lines 2854-2863: the fingerprints of the images.
LeftoverImages(fault) ==
    /\ leftover.pc = "images"
    /\ leftover' = IF fault = "images"
                    THEN [leftover EXCEPT !.pc = "done", !.res = "ImagesFailed"]
                    ELSE [leftover EXCEPT !.pc = "readdir",
                                          !.images = GetLocalImagesFingerprints(images)]
    /\ UNCHANGED <<imageVars, notLeftover>>

\* Lines 2865-2869: the entries of images/.
LeftoverReadDir(fault) ==
    /\ leftover.pc = "readdir"
    /\ leftover' = IF fault = "readdir"
                    THEN [leftover EXCEPT !.pc = "done", !.res = "ReadDirFailed"]
                    ELSE [leftover EXCEPT !.pc = "entries",
                                          !.entries = ReadDir(files, builddirs),
                                          !.seen = ReadDir(files, builddirs)]
    /\ UNCHANGED <<imageVars, notLeftover>>

\* Lines 2872-2882: the next entry; a leftover is removed with all it holds.
LeftoverEntry(entry, fault) ==
    /\ leftover.pc = "entries"
    /\ entry \in leftover.entries
    /\ LET rest == [leftover EXCEPT !.entries = leftover.entries \ {entry}]
       IN  IF ~IsLeftover(entry, leftover.images)
           THEN /\ leftover' = rest
                /\ UNCHANGED <<files, builddirs>>
           ELSE IF fault = "remove"
           THEN /\ leftover' = [rest EXCEPT !.pc = "done", !.res = "RemoveFailed"]
                /\ UNCHANGED <<files, builddirs>>
           ELSE /\ leftover' = [rest EXCEPT !.removed = leftover.removed \cup {entry}]
                /\ files' = files \ {entry}
                /\ builddirs' = IF entry.kind = "build" THEN builddirs \ {entry.r}
                                 ELSE builddirs
    /\ UNCHANGED <<images, nextId, aliases, profiles, volumes, tokens, nextSecret, upstream,
                   publishLock, taskMu, opLock, post, del, refresh, task, calls,
                   peerDeletes, notLeftover>>

\* Line 2884: every entry was visited.
LeftoverDone ==
    /\ leftover.pc = "entries"
    /\ leftover.entries = {}
    /\ leftover' = [leftover EXCEPT !.pc = "done", !.res = "ok"]
    /\ UNCHANGED <<imageVars, notLeftover>>

\* The operation's run function comes to its end.  pruneLeftoverImages removes
\* every entry of images/ that is not the file of a record; autoUpdateImages
\* and pruneExpiredImages work on the auto-update and the cached images.
TaskOperationRun(t) ==
    /\ task[t].op = "running"
    /\ \A i \in images : ~i.auto /\ ~i.cached
    /\ task' = [task EXCEPT ![t].op = "done"]
    /\ files' = IF t = "pruneLeftover" THEN LeftoverFilesKept(files, images) ELSE files
    /\ builddirs' = IF t = "pruneLeftover" THEN {} ELSE builddirs
    /\ UNCHANGED otherVars
    /\ UNCHANGED <<images, nextId, aliases, profiles, volumes, tokens, nextSecret, upstream,
                   publishLock, taskMu, opLock, post, del, refresh, calls, peerDeletes>>

\* op.Wait(ctx) returns (lines 2160, 2787, 2905): the operation is done, or the
\* context was cancelled.
TaskWait(t) ==
    /\ task[t].pc = "waiting"
    /\ task[t].op = "done" \/ task[t].cancelled
    /\ task' = [task EXCEPT ![t].pc = "return"]
    /\ UNCHANGED otherVars
    /\ UNCHANGED <<storeVars, builddirs, tokens, nextSecret, upstream, publishLock, taskMu,
                   opLock, post, del, refresh, calls, peerDeletes>>

\* The task function returns: the deferred imageTaskMu.Unlock().
TaskReturn(t) ==
    /\ task[t].pc = "return"
    /\ taskMu' = Nobody
    /\ task' = [task EXCEPT ![t].pc = "idle"]
    /\ UNCHANGED otherVars
    /\ UNCHANGED <<storeVars, builddirs, tokens, nextSecret, upstream, publishLock, opLock,
                   post, del, refresh, calls, peerDeletes>>

\* The context of a task is cancelled: the task group stops, the daemon shuts down.
TaskCancel(t) ==
    /\ ~task[t].cancelled
    /\ task' = [task EXCEPT ![t].cancelled = TRUE]
    /\ UNCHANGED otherVars
    /\ UNCHANGED <<storeVars, builddirs, tokens, nextSecret, upstream, publishLock, taskMu,
                   opLock, post, del, refresh, calls, peerDeletes>>

(***************************************************************************)
(* pruneExpiredImages.  The run holds allImages (the cached records read   *)
(* at its start), expiryDays (projectsImageRemoteCacheExpiryDays), the     *)
(* fingerprint of the current iteration, the records of it still to visit  *)
(* (todo), dbImagesDeleted, and, as history, what it read at its start     *)
(* (env: the global and the project configuration and the dates of the     *)
(* records), the last reading of the clock (now), the fingerprints whose   *)
(* files it removed (removed) and the ids whose rows it deleted (dropped). *)
(***************************************************************************)
MaxImages == 5
ImageIds == 1..MaxImages

\* Times are counted in hours since the zero time; a last-use date that is
\* the zero time means the image was never used.
Hour == 1
Day == 24 * Hour
ZeroTime == 0

\* time.Duration is a signed 64-bit count of nanoseconds, and its arithmetic
\* wraps.  The model counts hours, in DurationBits bits, so that the largest
\* number of days whose duration fits is MaxDurationDays (106751 in the
\* source, where a day is 86400000000000 nanoseconds).
DurationBits == 8
Duration(n) ==
    LET m == n % (2 ^ DurationBits)
    IN  IF m >= 2 ^ (DurationBits - 1) THEN m - 2 ^ DurationBits ELSE m
MaxDurationDays == (2 ^ (DurationBits - 1) - 1) \div Day

NoEnv ==
    [global |-> 0, config |-> [p \in Projects |-> NoExpiry],
     upload |-> [id \in ImageIds |-> ZeroTime], lastUse |-> [id \in ImageIds |-> ZeroTime],
     now |-> ZeroTime]

IdlePrune ==
    [pc |-> "idle", allImages |-> {}, env |-> NoEnv, expiryDays |-> [p \in Projects |-> 0],
     now |-> ZeroTime, fp |-> NoFp, todo |-> {}, dbImagesDeleted |-> 0, fault |-> "none",
     removed |-> {}, dropped |-> {}, res |-> "none"]

PruneFaults == {"none", "projects", "row", "pools", "volume", "file"}

\* dbCluster.GetImages with the filter Cached, line 2952.
CachedImages(imgs) == {i \in imgs : i.cached}

\* The records the run compares dbImagesDeleted with, lines 2957-2959 and 3013.
PruneRecords(p) == {i \in p.allImages : i.fp = p.fp}

\* Lines 2935-2946: the expiry days of a project are its own
\* images.remote_cache_expiry when that is set, the global default otherwise.
ExpiryDaysUnlessZero(env, project) ==
    IF env.config[project] \notin {NoExpiry, "0"} THEN ParseInt(env.config[project])
    ELSE env.global

ExpiryDays(env, project) ==
    IF env.config[project] # NoExpiry THEN ParseInt(env.config[project])
    ELSE env.global

\* Line 2938: a value that does not parse ends the run.
ExpiryDaysError(env) ==
    \E p \in Projects : env.config[p] # NoExpiry /\ ~ParseIntOk(env.config[p])

\* Lines 2984-2988: the last-use date unless it is the zero time, else the
\* upload date.
Timestamp(env, id) ==
    IF env.lastUse[id] # ZeroTime THEN env.lastUse[id] ELSE env.upload[id]

\* Line 2990: timestamp.Add(time.Duration(expiryDays) * time.Hour * 24).
ImageExpiry(timestamp, expiryDays) ==
    timestamp + Duration(Duration(expiryDays * Hour) * 24)

\* Lines 2979-2997: the record is skipped when its project has no positive
\* expiry or when its expiry is after the clock.
Expired(p, i, now) ==
    /\ ~(p.expiryDays[i.project] <= 0)
    /\ ~(ImageExpiry(Timestamp(p.env, i.id), p.expiryDays[i.project]) > now)

\* pruneExpiredImages, lines 2919-2965: the first transaction reads the
\* configuration and the cached records with their dates.
PruneStart(fault, env) ==
    /\ prune.pc = "idle"
    /\ prune' = IF fault = "projects" \/ ExpiryDaysError(env)
                  THEN [IdlePrune EXCEPT !.pc = "done", !.fault = fault, !.env = env,
                                         !.now = env.now, !.res = "ProjectsFailed"]
                  ELSE [IdlePrune EXCEPT !.pc = "fingerprint", !.fault = fault,
                                         !.env = env, !.now = env.now,
                                         !.allImages = CachedImages(images),
                                         !.expiryDays =
                                             [p \in Projects |-> ExpiryDays(env, p)]]
    /\ UNCHANGED <<imageVars, notPrune>>

\* What a run reads when the global default is one day, no project has a
\* value of its own, and the records of expired were uploaded a day or more
\* ago and never used.
ExpiredEnv(expired) ==
    [NoEnv EXCEPT !.global = 1, !.now = Day,
                  !.upload = [id \in ImageIds |-> IF id \in expired THEN ZeroTime ELSE Day]]

\* Lines 2967-2976: the next fingerprint of allImages, unless the context is
\* done.
PruneFingerprint(fp, cancelled) ==
    /\ prune.pc = "fingerprint"
    /\ \E i \in prune.allImages : i.fp = fp
    /\ prune' = IF cancelled
                  THEN [prune EXCEPT !.pc = "done", !.res = "ok"]
                  ELSE [prune EXCEPT !.pc = "records", !.fp = fp,
                                     !.todo = {i \in prune.allImages : i.fp = fp},
                                     !.dbImagesDeleted = 0]
    /\ UNCHANGED <<imageVars, notPrune>>

\* The loop ends, or goes on to the fingerprints not yet visited.
PruneNextFingerprint(p) ==
    LET rest == {i \in p.allImages : i.fp # p.fp}
    IN  IF rest = {} THEN [p EXCEPT !.pc = "done", !.allImages = rest, !.res = "ok"]
        ELSE [p EXCEPT !.pc = "fingerprint", !.allImages = rest]

\* Lines 2978-3009: one record of the fingerprint; the clock is read (it
\* does not go back), and an expired record is deleted from the database.
PruneRecord(id, now) ==
    /\ prune.pc = "records"
    /\ now >= prune.now
    /\ \E i \in prune.todo : i.id = id
    /\ LET i == CHOOSE i \in prune.todo : i.id = id
           p == [prune EXCEPT !.todo = prune.todo \ {i}, !.now = now]
       IN  IF ~Expired(p, i, now)
           THEN /\ prune' = p
                /\ UNCHANGED <<images, aliases, profiles>>
           ELSE IF p.fault = "row" \/ ~DeleteImageOk(images, i.id)
           THEN /\ prune' = [p EXCEPT !.pc = "done", !.res = "DeleteFailed"]
                /\ UNCHANGED <<images, aliases, profiles>>
           ELSE /\ images' = DeleteImageRows(images, i.id)
                /\ aliases' = DeleteAliasRows(aliases, i.id)
                /\ profiles' = DeleteProfileRows(profiles, i.id)
                /\ prune' = [p EXCEPT !.dbImagesDeleted = p.dbImagesDeleted + 1,
                                      !.dropped = p.dropped \cup {i.id}]
    /\ UNCHANGED <<nextId, volumes, files, builddirs, tokens, nextSecret, upstream,
                   publishLock, taskMu, opLock, post, del, refresh, task, calls,
                   peerDeletes, notPrune>>

\* Lines 3011-3015: the files and volumes are skipped unless every record of
\* the fingerprint in allImages was deleted.
PruneKeepsFiles(p) == p.dbImagesDeleted < Cardinality(PruneRecords(p))

\* Lines 3011-3047: after the records, the volumes of the fingerprint on the
\* pools that have one.
PrunePools ==
    /\ prune.pc = "records"
    /\ prune.todo = {}
    /\ LET p == prune
       IN  IF PruneKeepsFiles(p) \/ p.fault = "pools"
           THEN /\ prune' = PruneNextFingerprint(p)
                /\ UNCHANGED volumes
           ELSE IF p.fault = "volume" /\ PoolsWithImage(volumes, p.fp) # {}
           THEN /\ prune' = [p EXCEPT !.pc = "done", !.res = "VolumeFailed"]
                /\ UNCHANGED volumes
           ELSE /\ volumes' = {v \in volumes : v[2] # p.fp}
                /\ prune' = [p EXCEPT !.pc = "files"]
    /\ UNCHANGED <<images, nextId, aliases, profiles, files, builddirs, tokens,
                   nextSecret, upstream, publishLock, taskMu, opLock, post, del, refresh,
                   task, calls, peerDeletes, notPrune>>

\* Lines 3049-3063: the image file and its rootfs file.
PruneFiles ==
    /\ prune.pc = "files"
    /\ LET p == prune
       IN  IF p.fault = "file" /\ Blob(p.fp) \in files
           THEN /\ prune' = [p EXCEPT !.pc = "done", !.res = "FileFailed"]
                /\ UNCHANGED files
           ELSE /\ files' = files \ {Blob(p.fp), Rootfs(p.fp)}
                /\ prune' = PruneNextFingerprint([p EXCEPT !.removed = p.removed \cup {p.fp}])
    /\ UNCHANGED <<images, nextId, aliases, profiles, volumes, builddirs, tokens,
                   nextSecret, upstream, publishLock, taskMu, opLock, post, del, refresh,
                   task, calls, peerDeletes, notPrune>>

(***************************************************************************)
(* The alias endpoints.  Each handler is one database transaction.  A      *)
(* request has project, name (the alias of the URL or of the body of a     *)
(* create), target (a fingerprint or a prefix of one, NoFp when a PATCH    *)
(* has none), newName (rename) and fault.                                  *)
(***************************************************************************)
AliasNames == {"foo", "bar"}

\* tx.GetImageAlias(project, name)
GetImageAlias(als, project, name) == {a \in als : a.project = project /\ a.name = name}

\* tx.GetImageByFingerprintPrefix and tx.GetImage with the filter Project,
\* lines 3790, 4210 and 4316: the records the alias may point to.
AliasTargetAnyProject(imgs, project, target) ==
    {i \in imgs : HasPrefix(i.fp, target)}

AliasTarget(imgs, project, target) == GetImage(imgs, project, target)

\* imageAliasesPost, lines 3765-3817
ImageAliasesPostResult(q, imgs, als) ==
    IF q.name = NoAlias \/ q.target = NoFp THEN "BadRequest"
    ELSE IF q.fault = "db" THEN "InternalError"
    ELSE IF GetImageAlias(als, q.project, q.name) # {} THEN "Conflict"
    ELSE IF Cardinality(AliasTarget(imgs, q.project, q.target)) # 1 THEN "NotFound"
    ELSE "ok"

ImageAliasesPost(q) ==
    /\ ImageAliasesPostResult(q, images, aliases) = "ok"
    /\ LET i == CHOOSE i \in AliasTarget(images, q.project, q.target) : TRUE
       IN  aliases' = aliases \cup {[project |-> q.project, name |-> q.name,
                                     image |-> i.id]}
    /\ UNCHANGED <<images, nextId, profiles, volumes, files, builddirs, tokens,
                   nextSecret, upstream, publishLock, taskMu, opLock, post, del, refresh,
                   task, calls, peerDeletes, otherVars>>

\* imageAliasDelete, lines 4103-4139
ImageAliasDelete(q) ==
    /\ q.fault # "db"
    /\ GetImageAlias(aliases, q.project, q.name) # {}
    /\ aliases' = aliases \ GetImageAlias(aliases, q.project, q.name)
    /\ UNCHANGED <<images, nextId, profiles, volumes, files, builddirs, tokens,
                   nextSecret, upstream, publishLock, taskMu, opLock, post, del, refresh,
                   task, calls, peerDeletes, otherVars>>

\* tx.UpdateImageAlias(id, imageID)
UpdateImageAlias(als, a, imageID) == (als \ {a}) \cup {[a EXCEPT !.image = imageID]}

\* imageAliasPut, lines 4175-4230
ImageAliasPutResult(q, imgs, als) ==
    IF q.target = NoFp THEN "BadRequest"
    ELSE IF GetImageAlias(als, q.project, q.name) = {} THEN "NotFound"
    ELSE IF q.fault = "etag" THEN "PreconditionFailed"
    ELSE IF Cardinality(AliasTarget(imgs, q.project, q.target)) # 1 THEN "NotFound"
    ELSE IF q.fault = "db" THEN "InternalError"
    ELSE "ok"

ImageAliasPut(q) ==
    /\ ImageAliasPutResult(q, images, aliases) = "ok"
    /\ LET a == CHOOSE a \in GetImageAlias(aliases, q.project, q.name) : TRUE
           i == CHOOSE i \in AliasTarget(images, q.project, q.target) : TRUE
       IN  aliases' = UpdateImageAlias(aliases, a, i.id)
    /\ UNCHANGED <<images, nextId, profiles, volumes, files, builddirs, tokens,
                   nextSecret, upstream, publishLock, taskMu, opLock, post, del, refresh,
                   task, calls, peerDeletes, otherVars>>

\* imgAlias.Target of tx.GetImageAlias: the fingerprint of the image the alias
\* points to.
AliasFingerprint(imgs, a) ==
    IF \E i \in imgs : i.id = a.image
    THEN (CHOOSE i \in imgs : i.id = a.image).fp ELSE NoFp

\* imageAliasPatch, lines 4266-4336: without a target in the body, the image
\* is looked up by the fingerprint the alias has.
ImageAliasPatchTarget(q, imgs, a) ==
    IF q.target # NoFp THEN q.target ELSE AliasFingerprint(imgs, a)

ImageAliasPatchResult(q, imgs, als) ==
    IF GetImageAlias(als, q.project, q.name) = {} THEN "NotFound"
    ELSE IF q.fault = "etag" THEN "PreconditionFailed"
    ELSE LET a == CHOOSE a \in GetImageAlias(als, q.project, q.name) : TRUE
             target == ImageAliasPatchTarget(q, imgs, a)
         IN  IF target = NoFp \/ Cardinality(GetImage(imgs, q.project, target)) # 1
             THEN "NotFound"
             ELSE IF q.fault = "db" THEN "InternalError"
             ELSE "ok"

ImageAliasPatch(q) ==
    /\ ImageAliasPatchResult(q, images, aliases) = "ok"
    /\ LET a == CHOOSE a \in GetImageAlias(aliases, q.project, q.name) : TRUE
           target == ImageAliasPatchTarget(q, images, a)
           i == CHOOSE i \in GetImage(images, q.project, target) : TRUE
       IN  aliases' = UpdateImageAlias(aliases, a, i.id)
    /\ UNCHANGED <<images, nextId, profiles, volumes, files, builddirs, tokens,
                   nextSecret, upstream, publishLock, taskMu, opLock, post, del, refresh,
                   task, calls, peerDeletes, otherVars>>

\* imageAliasPost, lines 4370-4418: the rename.
ImageAliasPostResult(q, als) ==
    IF q.fault = "db" THEN "InternalError"
    ELSE IF GetImageAlias(als, q.project, q.newName) # {} THEN "Conflict"
    ELSE IF GetImageAlias(als, q.project, q.name) = {} THEN "NotFound"
    ELSE "ok"

ImageAliasPost(q) ==
    /\ ImageAliasPostResult(q, aliases) = "ok"
    /\ LET a == CHOOSE a \in GetImageAlias(aliases, q.project, q.name) : TRUE
       IN  aliases' = (aliases \ {a}) \cup {[a EXCEPT !.name = q.newName]}
    /\ UNCHANGED <<images, nextId, profiles, volumes, files, builddirs, tokens,
                   nextSecret, upstream, publishLock, taskMu, opLock, post, del, refresh,
                   task, calls, peerDeletes, otherVars>>

(***************************************************************************)
(* The migration session of migrate_instance.go: newMigrationSource,       *)
(* newMigrationSink and the two do() methods.  mig is the session of one   *)
(* side: the arguments it was made from, live, push, conns (the state of   *)
(* each channel: "new", "open" or "closed"), deferred (do has deferred     *)
(* disconnect), called (MigrateSend or MigrateReceive was called),         *)
(* callbacks (how many callbacks the instance made), log (what happened to *)
(* the channels, in order) and the result of do.                           *)
(***************************************************************************)
MaxCallbacks == 3

SecretNameControl == "control"
SecretNameFilesystem == "filesystem"
SecretNameState == "state"

NoConns == [c \in {} |-> "new"]
NoError == "none"
MigrateErrors == {"e1", "e2"}

NoArgs ==
    [side |-> "none", stateful |-> FALSE, running |-> FALSE, live |-> FALSE,
     container |-> FALSE, criu |-> FALSE, push |-> FALSE, fault |-> "none"]

IdleMigration ==
    [pc |-> "idle", args |-> NoArgs, live |-> FALSE, push |-> FALSE, conns |-> NoConns,
     deferred |-> FALSE, called |-> FALSE, callbacks |-> 0, log |-> <<>>, res |-> NoError]

\* newMigrationSource, lines 41-50: live is set for a stateful migration of a
\* running instance.
SourceLiveStateful(args) == args.stateful

SourceLive(args) == args.stateful /\ args.running

\* newMigrationSink, lines 178-187: live is what the request says.
SinkLive(args) == args.live

\* secretNames, lines 41-54 and 178-190
SecretNames(live) ==
    IF live THEN {SecretNameControl, SecretNameFilesystem, SecretNameState}
    ELSE {SecretNameControl, SecretNameFilesystem}

\* The source dials when it has a push target (line 53); the sink dials
\* unless the migration is a push (line 190).  The side that dials needs the
\* secrets of the other one.
Dials(args) == IF args.side = "source" THEN args.push ELSE ~args.push

NewMigrationResult(args, live) ==
    IF live /\ args.container /\ ~args.criu
    THEN IF args.side = "source" THEN "ErrNoLiveMigrationSource"
         ELSE "ErrNoLiveMigrationTarget"
    ELSE IF Dials(args) /\ args.fault = "secret" THEN "SecretMissing"
    ELSE IF args.fault = "setup" THEN "SetupFailed"
    ELSE "ok"

\* newMigrationSource, lines 22-83
NewMigrationSource(args) ==
    /\ mig.pc = "idle"
    /\ args.side = "source"
    /\ LET live == SourceLive(args)
           e == NewMigrationResult(args, live)
       IN  mig' = IF e # "ok"
                  THEN [IdleMigration EXCEPT !.pc = "done", !.args = args, !.res = e]
                  ELSE [IdleMigration EXCEPT !.pc = "created", !.args = args,
                                             !.live = live, !.push = args.push,
                                             !.conns = [c \in SecretNames(live) |-> "new"]]
    /\ UNCHANGED <<imageVars, notMig>>

\* newMigrationSink, lines 163-214
NewMigrationSink(args) ==
    /\ mig.pc = "idle"
    /\ args.side = "sink"
    /\ LET live == SinkLive(args)
           e == NewMigrationResult(args, live)
       IN  mig' = IF e # "ok"
                  THEN [IdleMigration EXCEPT !.pc = "done", !.args = args, !.res = e]
                  ELSE [IdleMigration EXCEPT !.pc = "created", !.args = args,
                                             !.live = live, !.push = args.push,
                                             !.conns = [c \in SecretNames(live) |-> "new"]]
    /\ UNCHANGED <<imageVars, notMig>>

\* do, lines 85-92 and 216-223: the wait for the control connection, with
\* its context of 30 seconds, begins.
DoWait ==
    /\ mig.pc = "created"
    /\ mig' = [mig EXCEPT !.pc = "wait"]
    /\ UNCHANGED <<imageVars, notMig>>

ControlFailedError(side) ==
    IF side = "source" THEN "Failed waiting for migration control connection on source"
    ELSE "Failed waiting for migration control connection on target"

\* A disconnect that is deferred in push mode only, on the source too.
DefersDisconnectInPushMode(m) == m.push

\* The deferred disconnect of lines 101 and 233-235.
DefersDisconnect(m) == m.args.side = "source" \/ m.push

\* A do that goes on without the control connection.
DoControlFailedGoesOn ==
    /\ mig.pc = "wait"
    /\ mig' = [mig EXCEPT !.pc = "migrate", !.deferred = DefersDisconnect(mig),
                          !.called = TRUE]
    /\ UNCHANGED <<imageVars, notMig>>

\* do, lines 92-96 and 223-226: the 30 seconds pass, or the dial fails,
\* without a control connection; do returns.
DoControlFailed ==
    /\ mig.pc = "wait"
    /\ mig' = [mig EXCEPT !.pc = "done", !.res = ControlFailedError(mig.args.side)]
    /\ UNCHANGED <<imageVars, notMig>>

\* do, lines 92-133 and 223-266: the control connection is there in time; do
\* defers the disconnect and calls MigrateSend or MigrateReceive.
DoControlConnected ==
    /\ mig.pc = "wait"
    /\ mig' = [mig EXCEPT !.pc = "migrate",
                          !.conns[SecretNameControl] = "open",
                          !.log = Append(mig.log, <<"open", SecretNameControl>>),
                          !.deferred = DefersDisconnect(mig),
                          !.called = TRUE]
    /\ UNCHANGED <<imageVars, notMig>>

\* filesystemConnFunc and stateConnFunc, lines 103-129 and 237-263: the
\* channel is opened on first use; a channel the session does not have, or
\* one that is closed, gives an error.
ConnFunc(name) ==
    /\ mig.pc = "migrate"
    /\ mig.callbacks < MaxCallbacks
    /\ name \in {SecretNameFilesystem, SecretNameState}
    /\ mig' = IF name \in DOMAIN mig.conns /\ mig.conns[name] = "new"
                THEN [mig EXCEPT !.conns[name] = "open",
                                 !.log = Append(mig.log, <<"open", name>>),
                                 !.callbacks = mig.callbacks + 1]
                ELSE [mig EXCEPT !.callbacks = mig.callbacks + 1]
    /\ UNCHANGED <<imageVars, notMig>>

\* A Disconnect that closes the control channel too.
DisconnectAll(conns) == [c \in DOMAIN conns |-> "closed"]

\* The Disconnect callback, lines 140-146 and 273-279.
Disconnect(conns) ==
    [c \in DOMAIN conns |-> IF c # SecretNameControl THEN "closed" ELSE conns[c]]

MigrateDisconnect ==
    /\ mig.pc = "migrate"
    /\ mig.callbacks < MaxCallbacks
    /\ mig' = [mig EXCEPT !.conns = Disconnect(mig.conns),
                          !.log = Append(mig.log, <<"Disconnect", "">>),
                          !.callbacks = mig.callbacks + 1]
    /\ UNCHANGED <<imageVars, notMig>>

\* errMsg, lines 155 and 290
MigrateFailedError(side, err) ==
    IF side = "source" THEN <<"Failed migration on source", err>>
    ELSE <<"Failed migration on target", err>>

\* A do that returns the error without writing it to the control channel.
SendControlNothing(m, errMsg) == m

\* sendControl, lines 156 and 291: the error is written to the control
\* channel.
SendControl(m, errMsg) == [m EXCEPT !.log = Append(m.log, <<"sendControl", errMsg>>)]

\* do, lines 134-160 and 267-295: MigrateSend or MigrateReceive returns.
MigrateReturn(err) ==
    /\ mig.pc = "migrate"
    /\ mig' = IF err = NoError
                THEN [mig EXCEPT !.pc = "return", !.res = NoError]
                ELSE LET errMsg == MigrateFailedError(mig.args.side, err)
                     IN  [SendControl(mig, errMsg) EXCEPT !.pc = "return", !.res = errMsg]
    /\ UNCHANGED <<imageVars, notMig>>

\* disconnect closes the channels of the session, the control channel last.
DisconnectLog(log, conns) ==
    LET others == {c \in DOMAIN conns : c # SecretNameControl /\ conns[c] # "closed"}
        first == IF SecretNameFilesystem \in others
                 THEN Append(log, <<"close", SecretNameFilesystem>>) ELSE log
        second == IF SecretNameState \in others
                  THEN Append(first, <<"close", SecretNameState>>) ELSE first
    IN  Append(second, <<"close", SecretNameControl>>)

\* do returns, lines 100-101 and 231-235: the deferred disconnect runs.
DoReturn ==
    /\ mig.pc = "return"
    /\ mig' = IF mig.deferred
                THEN [mig EXCEPT !.pc = "done",
                                 !.conns = [c \in DOMAIN mig.conns |-> "closed"],
                                 !.log = DisconnectLog(mig.log, mig.conns)]
                ELSE [mig EXCEPT !.pc = "done"]
    /\ UNCHANGED <<imageVars, notMig>>

(***************************************************************************)
(* The cluster edit of the admin tool: cmdClusterEdit.run and              *)
(* validateNewConfig.  A raft node is [ID, Name, Role]; the address, which *)
(* validateNewConfig does not read, is left out.  nodes has db (the raft   *)
(* nodes of the local database), pc, old (the nodes run loaded), newNodes  *)
(* (the last member list the editor gave), valid (what validateNewConfig   *)
(* said of it), res, and, as history, named (by position, the first        *)
(* non-empty name the member had) and first (the ids of the raft nodes     *)
(* before any edit, in their order).                                       *)
(***************************************************************************)
MaxMembers == 3
MaxEditMembers == 2

RaftVoter == "voter"
RaftStandBy == "stand-by"
RaftSpare == "spare"
RaftRoles == {RaftVoter, RaftStandBy, RaftSpare}

\* The member lists of at most n members: the member at position i has the id
\* i or another one, any of the names and any role.
MemberLists(n, names) ==
    UNION {{[i \in 1..k |-> [ID |-> IF f[i].moved THEN i + MaxMembers ELSE i,
                             Name |-> f[i].Name, Role |-> f[i].Role]] :
               f \in [1..k -> [moved : BOOLEAN, Name : names, Role : RaftRoles]]} :
           k \in 0..n}

\* The raft nodes a database can hold: the ids are in place.
RaftNodeLists(n, names) == {l \in MemberLists(n, names) : \A i \in DOMAIN l : l[i].ID = i}

\* validateNewConfig, lines 290-294: the check of the number of voters.
VotersResultOne(numNewVoters, n) ==
    IF numNewVoters < 1 THEN "At least one member must be a voter" ELSE "ok"

VotersResult(numNewVoters, n) ==
    IF numNewVoters < 2 /\ n > 2 THEN "Number of voter must be 2 or more"
    ELSE IF numNewVoters < 1 THEN "At least one member must be a voter"
    ELSE "ok"

\* validateNewConfig, lines 271-274: the member at a position has another id.
IDChangedNever(oldNode, newNode) == FALSE

IDChanged(oldNode, newNode) == oldNode.ID # newNode.ID

\* validateNewConfig, lines 267-295: the loop over newNodes from position i
\* on.  oldNodes[i] is an index out of range when oldNodes is the shorter.
RECURSIVE ValidateLoop(_, _, _, _)
ValidateLoop(oldNodes, newNodes, i, numNewVoters) ==
    IF i > Len(newNodes) THEN VotersResult(numNewVoters, Len(newNodes))
    ELSE IF i > Len(oldNodes) THEN "panic"
    ELSE LET oldNode == oldNodes[i]
             newNode == newNodes[i]
         IN  IF IDChanged(oldNode, newNode)
             THEN "Changing cluster member ID is not supported"
             ELSE IF oldNode.Name # "" /\ newNode.Name # "" /\ oldNode.Name # newNode.Name
             THEN "Changing cluster member name is not supported"
             ELSE IF oldNode.Role = RaftSpare /\ newNode.Role = RaftVoter
             THEN "A spare cluster member cannot become a voter"
             ELSE ValidateLoop(oldNodes, newNodes, i + 1,
                               IF newNode.Role = RaftVoter THEN numNewVoters + 1
                               ELSE numNewVoters)

\* A validateNewConfig without the two checks of the length.
validateNewConfigAnyLength(oldNodes, newNodes) == ValidateLoop(oldNodes, newNodes, 1, 0)

\* validateNewConfig, lines 258-297
validateNewConfig(oldNodes, newNodes) ==
    IF Len(oldNodes) > Len(newNodes) THEN "Removing cluster members is not supported"
    ELSE IF Len(oldNodes) < Len(newNodes) THEN "Adding cluster members is not supported"
    ELSE ValidateLoop(oldNodes, newNodes, 1, 0)

\* The names the members have had: the first non-empty one stays.
Named(named, l) ==
    [i \in DOMAIN l |-> IF i \in DOMAIN named /\ named[i] # "" THEN named[i] ELSE l[i].Name]

\* The ids of a member list, in its order.
IDs(l) == [i \in DOMAIN l |-> l[i].ID]

NoEdit ==
    [db |-> <<>>, pc |-> "idle", old |-> <<>>, newNodes |-> <<>>, valid |-> "none",
     res |-> "none", named |-> <<>>, first |-> <<>>]

\* cmdClusterEdit.run, lines 146-209: the raft nodes are read and the editor
\* opens.
ClusterEditLoad ==
    /\ nodes.pc = "idle"
    /\ nodes' = [nodes EXCEPT !.pc = "editor", !.old = nodes.db, !.newNodes = <<>>,
                              !.valid = "none", !.res = "none"]
    /\ UNCHANGED <<imageVars, notNodes>>

\* cluster.Reconfigure(database, newNodes): the raft nodes of the database
\* become newNodes.
Reconfigure(n, newNodes) ==
    [n EXCEPT !.db = newNodes, !.named = Named(n.named, newNodes)]

\* cmdClusterEdit.run, lines 212-229: the error of the text of the editor
\* before cluster.Reconfigure is called.  The text does not parse as YAML, or
\* a member has an unknown role, or it is the member list newNodes, which is
\* validated against the nodes read at the start.
ConfigErrorUnvalidated(oldNodes, newNodes, fault) ==
    IF fault = "yaml" THEN "yaml: unmarshal error"
    ELSE IF fault = "role" THEN "unknown raft role"
    ELSE "ok"

ConfigError(oldNodes, newNodes, fault) ==
    IF fault = "yaml" THEN "yaml: unmarshal error"
    ELSE IF fault = "role" THEN "unknown raft role"
    ELSE validateNewConfig(oldNodes, newNodes)

\* cmdClusterEdit.run, lines 211-250: one round of the loop.  The text of the
\* editor is parsed, converted, validated and written; any error opens the
\* editor again.
ClusterEditSubmit(newNodes, fault) ==
    /\ nodes.pc = "editor"
    /\ LET valid == ConfigError(nodes.old, newNodes, fault)
           n == [nodes EXCEPT !.newNodes = newNodes]
       IN  nodes' = IF fault \in {"yaml", "role"}
                    THEN [n EXCEPT !.valid = "none", !.res = valid]
                    ELSE IF valid # "ok" THEN [n EXCEPT !.valid = valid, !.res = valid]
                    ELSE IF fault = "reconfigure"
                    THEN [n EXCEPT !.valid = valid, !.res = "ReconfigureFailed"]
                    ELSE [Reconfigure(n, newNodes) EXCEPT !.valid = valid, !.res = "ok",
                                                          !.pc = "idle"]
    /\ UNCHANGED <<imageVars, notNodes>>

\* cmdClusterEdit.run, lines 236-247: the user aborts at the prompt, or the
\* editor fails.
ClusterEditAbort ==
    /\ nodes.pc = "editor"
    /\ nodes.res \notin {"none", "ok"}
    /\ nodes' = [nodes EXCEPT !.pc = "idle", !.res = "aborted"]
    /\ UNCHANGED <<imageVars, notNodes>>

(***************************************************************************)
(* Initial states.                                                         *)
(***************************************************************************)
IdleTask == [pc |-> "idle", op |-> "none", cancelled |-> FALSE]

NoCalls == [matched |-> {}, again |-> {}]

\* No imageGet or imagesGet yet, and no image is public.
NoGetRequest ==
    [kind |-> "none", project |-> "default", fingerprint |-> NoFp, secret |-> NoSecret,
     allProjects |-> FALSE, trusted |-> FALSE, canView |-> FALSE, permitted |-> {},
     fault |-> "none"]

NoResponse == [code |-> 0, text |-> NoFp, err |-> "", ids |-> {}]

\* imageValidSecret was not called; seen are the token operations at the time
\* of the request.
NoValidSecret == [called |-> FALSE, seen |-> {}, op |-> NoOperation, err |-> "", cancelled |-> {}]

IdleGet == [public |-> {}, q |-> NoGetRequest, resp |-> NoResponse, valid |-> NoValidSecret]

ImagesIdle ==
    /\ post = [r \in Posts |-> IdlePost]
    /\ del = [d \in Deletes |-> IdleDelete]
    /\ refresh = [u \in Refreshes |-> IdleRefresh]
    /\ task = [t \in Tasks |-> IdleTask]
    /\ publishLock = Nobody
    /\ taskMu = Nobody
    /\ opLock = [fp \in Fingerprints |-> Nobody]
    /\ calls = NoCalls
    /\ peerDeletes = {}

AllIdle ==
    /\ ImagesIdle
    /\ prune = IdlePrune
    /\ mig = IdleMigration
    /\ nodes = NoEdit
    /\ get = IdleGet
    /\ autoUpdate = IdleAuto
    /\ sync = IdleSync
    /\ export = IdleExport
    /\ leftover = IdleLeftover

EmptyStore ==
    /\ images = {}
    /\ nextId = 1
    /\ aliases = {}
    /\ profiles = {}
    /\ volumes = {}
    /\ files = {}
    /\ builddirs = {}

NoTokens ==
    /\ tokens = {}
    /\ nextSecret = 1
    /\ upstream = FA

(***************************************************************************)
(* SpecUpload: concurrent raw uploads by trusted clients into one project  *)
(* of an empty image store.                                                *)
(***************************************************************************)
UploadRequests ==
    {q \in [kind : {"upload"}, project : {"default"}, bytes : Fingerprints,
            split : BOOLEAN, expect : {NoFp}, secret : {NoSecret}, trusted : {TRUE},
            profile : {"", "ghost"}, alias : {NoAlias, "foo"}, notify : {FALSE},
            fault : {"none", "move2", "create"}] :
        /\ q.fault = "move2" => q.split
        /\ q.profile = "ghost" => (q.alias = NoAlias /\ q.fault = "none" /\ ~q.split)}

InitUpload == AllIdle /\ EmptyStore /\ NoTokens

NextUpload ==
    \E r \in Posts :
        \/ \E q \in UploadRequests : ImagesPost(r, q)
        \/ GetImgPostInfoMove(r)
        \/ GetImgPostInfoExists(r)
        \/ GetImgPostInfoCommit(r)
        \/ PostAliases(r)

SpecUpload == InitUpload /\ [][NextUpload]_vars

(***************************************************************************)
(* SpecGate: imagesPost from trusted and untrusted clients, with image     *)
(* tokens created by push-mode requests and by imageSecret, consumed by    *)
(* imagesPost and imageGet, and ended by the operation's timeout.          *)
(***************************************************************************)
Secrets == 1..MaxTokens

\* imageSecret: a token for an image of the project.
ImageSecret(i) ==
    /\ i \in images
    /\ nextSecret <= MaxTokens
    /\ tokens' = createTokenResponse(tokens, i.project, i.fp, nextSecret)
    /\ nextSecret' = nextSecret + 1
    /\ UNCHANGED otherVars
    /\ UNCHANGED <<storeVars, builddirs, upstream, publishLock, taskMu, opLock, post, del,
                   refresh, task, calls, peerDeletes>>

\* response.NotFound(fmt.Errorf("Image %q not found", fingerprint))
NotFound(fingerprint) == [code |-> 404, text |-> fingerprint, err |-> "", ids |-> {}]

\* response.SmartError of an error that is not a not-found one.
SmartError(err) == [code |-> 500, text |-> NoFp, err |-> err, ids |-> {}]

\* response.BadRequest
BadRequest(err) == [code |-> 400, text |-> NoFp, err |-> err, ids |-> {}]

\* imageGet, lines 3495-3497: what a private image answers to a client that
\* may not see it.
HiddenForbidden(fingerprint) == [code |-> 403, text |-> fingerprint, err |-> "", ids |-> {}]

Hidden(fingerprint) == NotFound(fingerprint)

\* response.SyncResponseETag(true, info, etag)
SyncResponse(ids) == [code |-> 200, text |-> NoFp, err |-> "", ids |-> ids]

\* imageGet, lines 3450-3501, as a function of the store, the public images,
\* the token operations and the request q: project, fingerprint (of the
\* path), secret, trusted (checkTrustedClient), canView (CheckPermission
\* grants the view) and fault (the call that fails).  The answer goes with
\* what imageValidSecret returned, if it was called.
ImageGetAnswer(imgs, pub, toks, q) ==
    LET found == GetImage(imgs, q.project, q.fingerprint)
        info == CHOOSE i \in found : TRUE
        public == ~q.trusted \/ ~q.canView
        valid == ValidSecret(toks, q.project, info.fp, q.secret, q.fault)
        called == [called |-> TRUE, seen |-> toks, op |-> valid.op, err |-> valid.err,
                   cancelled |-> valid.cancelled]
        notCalled == [NoValidSecret EXCEPT !.seen = toks]
    IN  IF q.fault = "lookup" THEN [resp |-> SmartError("lookup"), valid |-> notCalled]
        ELSE IF Cardinality(found) # 1
        THEN [resp |-> NotFound(q.fingerprint), valid |-> notCalled]
        ELSE IF q.fault = "permission"
        THEN [resp |-> SmartError("permission"), valid |-> notCalled]
        ELSE IF valid.err # "" THEN [resp |-> SmartError(valid.err), valid |-> called]
        ELSE IF info.id \notin pub /\ public /\ valid.op = NoOperation
        THEN [resp |-> Hidden(q.fingerprint), valid |-> called]
        ELSE [resp |-> SyncResponse({info.id}), valid |-> called]

\* imageGet, lines 3450-3501: the whole handler.
ImageGet(q) ==
    /\ LET answer == ImageGetAnswer(images, get.public, tokens, q)
           c == [NoRequest EXCEPT !.project = q.project, !.secret = q.secret,
                                  !.expect = answer.valid.op.fp]
       IN  /\ get' = [get EXCEPT !.q = q, !.resp = answer.resp, !.valid = answer.valid]
           /\ tokens' = {IF t \in answer.valid.cancelled THEN CancelledToken(t) ELSE t :
                             t \in tokens}
           /\ calls' = IF answer.valid.op # NoOperation THEN RecordCall(calls, c, tokens)
                       ELSE calls
    /\ UNCHANGED notGet
    /\ UNCHANGED <<storeVars, builddirs, nextSecret, upstream, publishLock, taskMu, opLock,
                   post, del, refresh, task, peerDeletes>>

\* tx.GetImagesFingerprints(ctx, projectName, public): the fingerprints of the
\* images of the project, of the public ones only when public is set.
GetImagesFingerprints(imgs, pub, project, public) ==
    {i.fp : i \in {j \in imgs : j.project = project /\ (public => j.id \in pub)}}

\* doImageGet, lines 3305-3317, as doImagesGet calls it: the record of the
\* project with the fingerprint, which has to be public when public is set.
doImageGet(imgs, pub, project, fingerprint, public) ==
    {i \in GetImage(imgs, project, fingerprint) : public => i.id \in pub}

\* doImagesGet, lines 1791-1856: the ids of the images listed.  The filter
\* clauses only take images away and are left out.
doImagesGet(imgs, pub, project, public, permitted, allProjects) ==
    LET imagesProjectsMap ==
            IF allProjects THEN {<<i.fp, i.project>> : i \in imgs}
            ELSE {<<fp, project>> : fp \in GetImagesFingerprints(imgs, pub, project, public)}
        listed(e) ==
            {i \in doImageGet(imgs, pub, e[2], e[1], public) :
                /\ Cardinality(doImageGet(imgs, pub, e[2], e[1], public)) = 1
                /\ i.id \in pub \/ i.id \in permitted}
    IN  UNION {{i.id : i \in listed(e)} : e \in imagesProjectsMap}

\* imagesGet, lines 2085-2132, as a function of the store and the request q:
\* project, allProjects, trusted, canView (GetPermissionChecker gave a
\* checker) with permitted (the images the checker allows), and fault.
ImagesGetAnswerAnyProject(imgs, pub, q) ==
    LET public == ~q.trusted \/ ~q.canView
    IN  IF q.allProjects /\ q.project # "default"
        THEN BadRequest("Cannot specify a project when requesting all projects")
        ELSE IF q.fault = "permission" THEN SmartError("permission")
        ELSE IF q.fault = "filter" THEN SmartError("Invalid filter")
        ELSE IF q.fault = "lookup" THEN SmartError("lookup")
        ELSE SyncResponse(doImagesGet(imgs, pub, q.project, public, q.permitted,
                                      q.allProjects))

ImagesGetAnswer(imgs, pub, q) ==
    LET public == ~q.trusted \/ ~q.canView
    IN  IF q.allProjects /\ q.project # "default"
        THEN BadRequest("Cannot specify a project when requesting all projects")
        ELSE IF q.fault = "permission" THEN SmartError("permission")
        ELSE IF public /\ (q.project # "default" \/ q.allProjects)
        THEN BadRequest("Unauthenticated image queries are only possible against the default project")
        ELSE IF q.fault = "filter" THEN SmartError("Invalid filter")
        ELSE IF q.fault = "lookup" THEN SmartError("lookup")
        ELSE SyncResponse(doImagesGet(imgs, pub, q.project, public, q.permitted,
                                      q.allProjects))

\* imagesGet, lines 2085-2132: the whole handler.
ImagesGet(q) ==
    /\ get' = [get EXCEPT !.q = q, !.resp = ImagesGetAnswer(images, get.public, q),
                          !.valid = [NoValidSecret EXCEPT !.seen = tokens]]
    /\ UNCHANGED notGet
    /\ UNCHANGED imageVars

\* A token operation reaches its timeout and is cancelled.
OperationExpire(t) ==
    /\ t \in tokens
    /\ t.status = "Running"
    /\ tokens' = (tokens \ {t}) \cup {CancelledToken(t)}
    /\ UNCHANGED otherVars
    /\ UNCHANGED <<storeVars, builddirs, nextSecret, upstream, publishLock, taskMu, opLock,
                   post, del, refresh, task, calls, peerDeletes>>

\* An operation that ended is dropped from the list of operations.
OperationForget(t) ==
    /\ t \in tokens
    /\ t.status # "Running"
    /\ tokens' = tokens \ {t}
    /\ UNCHANGED otherVars
    /\ UNCHANGED <<storeVars, builddirs, nextSecret, upstream, publishLock, taskMu, opLock,
                   post, del, refresh, task, calls, peerDeletes>>

GateRequests ==
    {q \in [kind : {"upload", "push"}, project : {"default"}, bytes : Fingerprints,
            split : {FALSE}, expect : FpHeaders, secret : {NoSecret} \cup Secrets,
            trusted : BOOLEAN, profile : {""}, alias : {NoAlias}, notify : {FALSE},
            fault : {"none", "permission", "lookup"}] :
        q.kind = "push" => (q.trusted /\ q.secret = NoSecret /\ q.expect = NoFp
                            /\ q.fault = "none")}

\* A store that holds one uploaded image.
OneImage ==
    /\ images = {NewImage(1, "default", FA, FALSE)}
    /\ nextId = 2
    /\ aliases = {}
    /\ profiles = {}
    /\ volumes = {}
    /\ files = {Blob(FA)}
    /\ builddirs = {}

\* The image has a token, handed out by imageSecret.
OneToken ==
    /\ tokens = createTokenResponse({}, "default", FA, 1)
    /\ nextSecret = 2
    /\ upstream = FA

InitGate == AllIdle /\ OneImage /\ OneToken

NextGate ==
    \/ \E r \in GatePosts :
        \/ \E q \in GateRequests : ImagesPost(r, q)
        \/ GetImgPostInfoMove(r)
        \/ GetImgPostInfoExists(r)
        \/ GetImgPostInfoCommit(r)
        \/ PostAliases(r)
    \/ \E t \in tokens : OperationExpire(t) \/ OperationForget(t)

SpecGate == InitGate /\ [][NextGate]_vars

(***************************************************************************)
(* SpecToken: the life of image tokens: handed out by imageSecret, checked *)
(* by imageGet, ended by their timeout, dropped from the operations list.  *)
(***************************************************************************)
TwoImages ==
    /\ images = {NewImage(1, "default", FA, FALSE), NewImage(2, "default", FB, FALSE)}
    /\ nextId = 3
    /\ aliases = {}
    /\ profiles = {}
    /\ volumes = {}
    /\ files = {Blob(FA), Blob(FB)}
    /\ builddirs = {}

\* The image of a token is asked for by a client that has no right to see it.
TokenGetRequests ==
    [kind : {"imageGet"}, project : {"default"}, fingerprint : Fingerprints,
     secret : Secrets, allProjects : {FALSE}, trusted : {FALSE}, canView : {FALSE},
     permitted : {{}}, fault : {"none", "operations", "cancel"}]

InitToken == AllIdle /\ TwoImages /\ NoTokens

NextToken ==
    \/ \E i \in images : ImageSecret(i)
    \/ \E q \in TokenGetRequests : ImageGet(q)
    \/ \E t \in tokens : OperationExpire(t) \/ OperationForget(t)

SpecToken == InitToken /\ [][NextToken]_vars

(***************************************************************************)
(* SpecPublish: instance publishes next to raw uploads and remote pulls,   *)
(* all by trusted clients into an empty image store.                       *)
(***************************************************************************)
PublishRequests ==
    {q \in [kind : {"instance", "upload", "image"}, project : {"default"},
            bytes : Fingerprints, split : {FALSE}, expect : {NoFp}, secret : {NoSecret},
            trusted : {TRUE}, profile : {""}, alias : {NoAlias}, notify : {FALSE},
            fault : {"none", "export", "move", "create", "download"}] :
        /\ q.fault \in {"export", "move"} => q.kind = "instance"
        /\ q.fault = "create" => q.kind \in {"instance", "upload"}
        /\ q.fault = "download" => q.kind = "image"}

InitPublish == AllIdle /\ EmptyStore /\ NoTokens

NextPublish ==
    \E r \in Posts :
        \/ \E q \in PublishRequests : ImagesPost(r, q)
        \/ GetImgPostInfoMove(r)
        \/ GetImgPostInfoExists(r)
        \/ GetImgPostInfoCommit(r)
        \/ ImgPostRemoteInfo(r)
        \/ PublishLock(r)
        \/ ImgPostInstanceExport(r)
        \/ ImgPostInstanceMove(r)
        \/ ImgPostInstanceCreate(r)
        \/ PublishUnlock(r)
        \/ PostAliases(r)

SpecPublish == InitPublish /\ [][NextPublish]_vars

(***************************************************************************)
(* SpecBuilddir: one imagesPost of every kind, from a trusted and from an  *)
(* untrusted client, with the failures of the handler and of its           *)
(* operation.                                                              *)
(***************************************************************************)
BuilddirRequests ==
    {q \in [kind : {"upload", "instance", "image", "badjson", "push", "invalid"},
            project : {"default"}, bytes : Fingerprints, split : {FALSE}, expect : {NoFp},
            secret : {NoSecret}, trusted : BOOLEAN, profile : {""}, alias : {NoAlias},
            notify : {FALSE},
            fault : {"none", "mkdir", "createtemp", "budget", "copy", "seek", "forwardseek",
                     "forward", "remote", "opcreate", "export", "move", "create",
                     "download"}] :
        /\ q.fault \in {"forwardseek", "forward", "remote", "export", "move"}
              => q.kind = "instance"
        /\ q.fault = "create" => q.kind \in {"instance", "upload"}
        /\ q.fault = "download" => q.kind = "image"}

InitBuilddir == AllIdle /\ EmptyStore /\ NoTokens

NextBuilddir ==
    \E r \in GatePosts :
        \/ \E q \in BuilddirRequests : ImagesPost(r, q)
        \/ GetImgPostInfoMove(r)
        \/ GetImgPostInfoExists(r)
        \/ GetImgPostInfoCommit(r)
        \/ ImgPostRemoteInfo(r)
        \/ PublishLock(r)
        \/ ImgPostInstanceExport(r)
        \/ ImgPostInstanceMove(r)
        \/ ImgPostInstanceCreate(r)
        \/ PublishUnlock(r)
        \/ PostAliases(r)

SpecBuilddir == InitBuilddir /\ [][NextBuilddir]_vars

(***************************************************************************)
(* SpecTasks: the three maintenance tasks on a server that holds one       *)
(* uploaded image.                                                         *)
(***************************************************************************)
InitTasks == AllIdle /\ OneImage /\ NoTokens

NextTasks ==
    \E t \in Tasks :
        \/ TaskCreate(t)
        \/ TaskLock(t)
        \/ \E failed \in BOOLEAN : TaskStart(t, failed)
        \/ TaskOperationRun(t)
        \/ TaskWait(t)
        \/ TaskReturn(t)
        \/ TaskCancel(t)

SpecTasks == InitTasks /\ [][NextTasks]_vars

(***************************************************************************)
(* SpecDelete: concurrent imageDelete requests, from clients and from      *)
(* peers, on a store whose image FA is held by two projects.               *)
(***************************************************************************)
DeleteRequests ==
    {q \in [project : Projects, fp : FpHeaders \ {NoFp}, notify : BOOLEAN,
            fault : {"none", "refs", "pool", "row"}] :
        q.notify => q.fault = "none"}

\* FA is in both projects, FB in one; both have a volume on the pool.
SharedStore ==
    /\ images = {NewImage(1, "default", FA, FALSE), NewImage(2, "blue", FA, FALSE),
                 NewImage(3, "default", FB, FALSE)}
    /\ nextId = 4
    /\ aliases = {[project |-> "default", name |-> "foo", image |-> 1]}
    /\ profiles = {[image |-> 1, profile |-> "default"]}
    /\ volumes = {<<"pool1", FA>>, <<"pool1", FB>>}
    /\ files = {Blob(FA), Blob(FB), Rootfs(FB)}
    /\ builddirs = {}

InitDelete == AllIdle /\ SharedStore /\ NoTokens

NextDelete ==
    \E d \in Deletes :
        \/ \E q \in DeleteRequests : ImageDelete(d, q)
        \/ DeleteLock(d)
        \/ DeleteExists(d)
        \/ DeleteRefs(d)
        \/ DeleteNotifyPeers(d)
        \/ DeletePools(d)
        \/ DeleteRow(d)
        \/ DeleteFromDisk(d)
        \/ DeleteUnlock(d)

SpecDelete == InitDelete /\ [][NextDelete]_vars

(***************************************************************************)
(* SpecRefresh: manual refreshes of an auto-update image that a second     *)
(* project holds as well, while the remote moves its alias.                *)
(***************************************************************************)
RefreshRequests ==
    [project : Projects, fp : Fingerprints,
     fault : {"none", "source", "download", "getimage", "alias", "profiles", "pool",
              "remove"},
     clock : {NoClock}]

\* FA was pulled into project default with auto-update, with an alias and the
\* default profile, and has a volume on both pools; project blue holds FA too.
RefreshStore ==
    /\ images = {NewImage(1, "default", FA, TRUE), NewImage(2, "blue", FA, FALSE)}
    /\ nextId = 3
    /\ aliases = {[project |-> "default", name |-> "foo", image |-> 1]}
    /\ profiles = {[image |-> 1, profile |-> "default"]}
    /\ volumes = {<<"pool1", FA>>, <<"pool2", FA>>}
    /\ files = {Blob(FA), Rootfs(FA)}
    /\ builddirs = {}

InitRefresh == AllIdle /\ RefreshStore /\ NoTokens

NextRefresh ==
    \/ \E u \in SoloRefreshes :
          \/ \E q \in RefreshRequests : ImageRefresh(u, q)
          \/ RefreshSource(u)
          \/ \E pool \in Pools \cup {NoPool} : RefreshDownload(u, pool)
          \/ RefreshGetImage(u)
          \/ RefreshStitch(u)
          \/ RefreshFinish(u)
          \/ RefreshDeleteOld(u)
    \/ \E fp \in Fingerprints : UpstreamPublish(fp)

SpecRefresh == InitRefresh /\ [][NextRefresh]_vars

(***************************************************************************)
(* SpecAuto: one run of the hourly auto-update loop on a store in which    *)
(* two projects hold the auto-update image FA, while the remote moves its  *)
(* alias to FB.                                                            *)
(***************************************************************************)
AutoStore ==
    /\ images = {NewImage(1, "default", FA, TRUE), NewImage(2, "blue", FA, TRUE)}
    /\ nextId = 3
    /\ aliases = {[project |-> "default", name |-> "foo", image |-> 1]}
    /\ profiles = {[image |-> 1, profile |-> "default"]}
    /\ volumes = {<<"pool1", FA>>}
    /\ files = {Blob(FA), Rootfs(FA)}
    /\ builddirs = {}

AutoFaults == {"none", "getimage", "source", "download", "alias", "remove"}

\* The global interval is one hour: every round is due.
DueClock == [NoClock EXCEPT !.global = 1]

InitAuto == AllIdle /\ AutoStore /\ NoTokens

NextAuto ==
    \/ \E fault \in {"none", "db"} : AutoUpdateStart(fault)
    \/ \E fp \in Fingerprints, fault \in {"none", "nodes"} :
          AutoUpdateFingerprint(fp, <<LocalMember>>, fault)
    \/ AutoUpdateDone
    \/ \E id \in ImageIds, fault \in AutoFaults, clock \in {DueClock, NoClock} :
          AutoUpdateCall(id, fault, clock)
    \/ RefreshSource(AutoCall)
    \/ \E pool \in Pools \cup {NoPool} : RefreshDownload(AutoCall, pool)
    \/ RefreshGetImage(AutoCall)
    \/ RefreshStitch(AutoCall)
    \/ RefreshFinish(AutoCall)
    \/ AutoUpdateReturn
    \/ AutoUpdateDelete
    \/ autoUpdate.pc = "idle" /\ UpstreamPublish(FB)

SpecAuto == InitAuto /\ [][NextAuto]_vars

(***************************************************************************)
(* SpecInterval: the hourly loop and a manual refresh on the same store,   *)
(* with the update interval and the time since the start of the daemon     *)
(* drawn from small sets.                                                  *)
(***************************************************************************)
IntervalClocks ==
    {[NoClock EXCEPT !.global = g, !.elapsed = m,
                     !.config = [p \in Projects |-> IF p = "default" THEN c ELSE NoExpiry]] :
        g \in {0, 1, 2}, c \in {NoExpiry, "0", "6", "-1", "x"}, m \in {60, 90, 360}}

IntervalRefreshRequests ==
    [project : {"default"}, fp : {FA}, fault : {"none"}, clock : IntervalClocks]

InitInterval == AllIdle /\ AutoStore /\ NoTokens

NextInterval ==
    \/ AutoUpdateStart("none")
    \/ \E fp \in Fingerprints : AutoUpdateFingerprint(fp, <<LocalMember>>, "none")
    \/ AutoUpdateDone
    \/ \E id \in ImageIds, clock \in IntervalClocks : AutoUpdateCall(id, "none", clock)
    \/ autoUpdate.pc = "idle" /\ \E q \in IntervalRefreshRequests : ImageRefresh(AutoCall, q)
    \/ RefreshSource(AutoCall)
    \/ \E pool \in Pools \cup {NoPool} : RefreshDownload(AutoCall, pool)
    \/ RefreshGetImage(AutoCall)
    \/ RefreshStitch(AutoCall)
    \/ RefreshFinish(AutoCall)
    \/ RefreshDeleteOld(AutoCall)
    \/ AutoUpdateReturn
    \/ AutoUpdateDelete
    \/ autoUpdate.pc = "idle" /\ UpstreamPublish(FB)

SpecInterval == InitInterval /\ [][NextInterval]_vars

(***************************************************************************)
(* SpecRefreshRace: the hourly loop and a manual refresh of the image FA   *)
(* of project default at the same time, while the remote moves its alias   *)
(* to FB.                                                                  *)
(***************************************************************************)
RaceRefreshRequests ==
    [project : {"default"}, fp : {FA}, fault : {"none"}, clock : {NoClock}]

InitRefreshRace == AllIdle /\ AutoStore /\ NoTokens

NextRefreshRace ==
    \/ AutoUpdateStart("none")
    \/ \E fp \in Fingerprints : AutoUpdateFingerprint(fp, <<LocalMember>>, "none")
    \/ AutoUpdateDone
    \/ \E id \in ImageIds : AutoUpdateCall(id, "none", DueClock)
    \/ AutoUpdateReturn
    \/ AutoUpdateDelete
    \/ \E q \in RaceRefreshRequests : ImageRefresh(ManualCall, q)
    \/ \E u \in {AutoCall, ManualCall} :
          \/ RefreshSource(u)
          \/ \E pool \in Pools \cup {NoPool} : RefreshDownload(u, pool)
          \/ RefreshGetImage(u)
          \/ RefreshStitch(u)
          \/ RefreshFinish(u)
    \/ RefreshDeleteOld(ManualCall)
    \/ autoUpdate.pc = "idle" /\ UpstreamPublish(FB)

SpecRefreshRace == InitRefreshRace /\ [][NextRefreshRace]_vars

(***************************************************************************)
(* SpecSelect: the members of a cluster reach the fingerprint FA, which    *)
(* two projects hold with auto-update, in their hourly loops.              *)
(***************************************************************************)
\* The holders as a member may read them: two or three members in some
\* order, or one member.
HolderLists == {<<1, 2>>, <<2, 1>>, <<1, 2, 3>>, <<3, 1, 2>>, <<2, 3, 1>>, <<2>>}

SelectFaults == {"none", "nodes", "address"}

InitSelect == AllIdle /\ AutoStore /\ NoTokens

NextSelect ==
    \/ AutoUpdateStart("none")
    \/ \E nodeIDs \in HolderLists, fault \in SelectFaults :
          AutoUpdateFingerprint(FA, nodeIDs, fault)
    \/ \E m \in MemberIds, nodeIDs \in HolderLists, fault \in SelectFaults :
          PeerFingerprint(m, FA, nodeIDs, fault)
    \/ \E id \in ImageIds : AutoUpdateCall(id, "getimage", NoClock)
    \/ AutoUpdateDelete
    \/ AutoUpdateDone

SpecSelect == InitSelect /\ [][NextSelect]_vars

(***************************************************************************)
(* SpecSync: one run of imageSyncBetweenNodes in a cluster of three        *)
(* members, while other requests give the image to members or take it      *)
(* away.                                                                   *)
(***************************************************************************)
Replicas == {-1, 0, 1, 2, 3}

InitSync ==
    /\ ImagesIdle /\ EmptyStore /\ NoTokens
    /\ prune = IdlePrune
    /\ mig = IdleMigration
    /\ nodes = NoEdit
    /\ get = IdleGet
    /\ autoUpdate = IdleAuto
    /\ export = IdleExport
    /\ leftover = IdleLeftover
    /\ \E have \in SUBSET MemberIds, replica \in Replicas :
          sync = [IdleSync EXCEPT !.members = MemberIds, !.have = have, !.replica = replica]

SyncStep ==
    \/ \E m \in MemberIds \cup {NoMember}, fault \in {"none", "without", "target"} :
          SyncPick(m, fault)
    \/ \E fault \in {"none", "create", "wait"} : SyncPull(fault)

NextSync ==
    \/ \E fault \in SyncFaults : ImageSyncBetweenNodes(fault)
    \/ SyncStep
    \/ \E m \in MemberIds, has \in BOOLEAN : MemberImage(m, has)

\* The calls to the database and to the other members return.
SpecSync == InitSync /\ [][NextSync]_vars /\ WF_vars(SyncStep)

(***************************************************************************)
(* SpecLeftover: runs of pruneLeftoverImages over an images directory that *)
(* holds the files of an image, files without a record and a build         *)
(* directory nobody owns.                                                  *)
(***************************************************************************)
LeftoverStore ==
    /\ images \in {{NewImage(1, "default", FA, FALSE)},
                    {NewImage(1, "default", FA, FALSE), NewImage(2, "blue", FB, FALSE)}, {}}
    /\ nextId = 3
    /\ aliases = {}
    /\ profiles = {}
    /\ volumes = {}
    /\ files \in SUBSET {Blob(FA), Rootfs(FA), Blob(FB), Rootfs(FB)}
    /\ builddirs \in SUBSET {1}

InitLeftover == AllIdle /\ LeftoverStore /\ NoTokens

NextLeftover ==
    \/ \E pool \in {NoPool, "pool1"}, multiNode \in BOOLEAN,
          fault \in {"none", "config", "split", "pool"} : LeftoverStart(pool, multiNode, fault)
    \/ \E fault \in {"none", "images"} : LeftoverImages(fault)
    \/ \E fault \in {"none", "readdir"} : LeftoverReadDir(fault)
    \/ \E entry \in ReadDir(files, builddirs), fault \in {"none", "remove"} :
          LeftoverEntry(entry, fault)
    \/ LeftoverDone

SpecLeftover == InitLeftover /\ [][NextLeftover]_vars

(***************************************************************************)
(* SpecLeftoverRace: a run of pruneLeftoverImages next to one raw upload   *)
(* into an empty store.                                                    *)
(***************************************************************************)
RaceRequests ==
    [kind : {"upload"}, project : {"default"}, bytes : {FA}, split : BOOLEAN,
     expect : {NoFp}, secret : {NoSecret}, trusted : {TRUE}, profile : {""},
     alias : {NoAlias}, notify : {FALSE}, fault : {"none", "create"}]

InitLeftoverRace == AllIdle /\ EmptyStore /\ NoTokens

NextLeftoverRace ==
    \/ \E r \in GatePosts :
          \/ \E q \in RaceRequests : ImagesPost(r, q)
          \/ GetImgPostInfoMove(r)
          \/ GetImgPostInfoExists(r)
          \/ GetImgPostInfoCommit(r)
          \/ PostAliases(r)
    \/ LeftoverStart(NoPool, FALSE, "none")
    \/ LeftoverImages("none")
    \/ LeftoverReadDir("none")
    \/ \E entry \in leftover.entries : LeftoverEntry(entry, "none")
    \/ LeftoverDone

SpecLeftoverRace == InitLeftoverRace /\ [][NextLeftoverRace]_vars

(***************************************************************************)
(* SpecExport: exports of an instance with and without compression, of a   *)
(* container and of a virtual machine, unified and split.                  *)
(***************************************************************************)
InitExport == AllIdle /\ EmptyStore /\ NoTokens

ExportStep ==
    \/ \E g \in Compressors, failed \in BOOLEAN : CompressReturn(g, failed)
    \/ \E g \in Compressors : CompressCheck(g)
    \/ \E failed \in BOOLEAN : ExportReturn(failed)
    \/ ExportClose
    \/ ExportWait

NextExport ==
    \/ \E compress \in {"none", "gzip"}, vm \in BOOLEAN, split \in BOOLEAN :
          ExportStart(compress, vm, split)
    \/ ExportStep

\* The goroutines are scheduled and c.Export goes on unless it is held up.
SpecExport == InitExport /\ [][NextExport]_vars /\ WF_vars(ExportStep)

(***************************************************************************)
(* SpecAlias: the alias endpoints next to an image delete, a refresh of an *)
(* auto-update image and an expiry run.                                    *)
(***************************************************************************)
AliasRequests ==
    [project : Projects, name : AliasNames, target : FpHeaders, newName : {NoAlias},
     fault : {"none", "etag"}]

RenameRequests ==
    [project : Projects, name : AliasNames, target : {NoFp}, newName : AliasNames,
     fault : {"none", "db"}]

\* The delete of the record an auto-update makes in default.
AliasDeleteRequests ==
    {q \in DeleteRequests : q.project = "default" /\ q.fp = FB /\ ~q.notify
                                /\ q.fault = "none"}

\* One image delete runs next to the alias requests.
AliasDeletes == {d \in Deletes : d = 1}

AliasRefreshRequests ==
    {q \in RefreshRequests : q.project = "default" /\ q.fp = FA /\ q.fault = "none"}

CachedImage(id, project, fp, auto) == [NewImage(id, project, fp, auto) EXCEPT !.cached = TRUE]

\* FA was pulled into project default with auto-update and is cached there,
\* with an alias; project blue holds FA and FB, with an alias on FA.
AliasStore ==
    /\ images = {CachedImage(1, "default", FA, TRUE), NewImage(2, "blue", FA, FALSE),
                 CachedImage(3, "blue", FB, FALSE)}
    /\ nextId = 4
    /\ aliases = {[project |-> "default", name |-> "foo", image |-> 1],
                  [project |-> "blue", name |-> "foo", image |-> 2]}
    /\ profiles = {[image |-> 1, profile |-> "default"]}
    /\ volumes = {<<"pool1", FA>>}
    /\ files = {Blob(FA), Rootfs(FA), Blob(FB)}
    /\ builddirs = {}

InitAlias == AllIdle /\ AliasStore /\ NoTokens

NextAlias ==
    \/ \E q \in AliasRequests :
          \/ ImageAliasesPost(q)
          \/ ImageAliasPut(q)
          \/ ImageAliasPatch(q)
          \/ ImageAliasDelete(q)
    \/ \E q \in RenameRequests : ImageAliasPost(q)
    \/ \E d \in AliasDeletes :
          \/ \E q \in AliasDeleteRequests : ImageDelete(d, q)
          \/ DeleteLock(d)
          \/ DeleteExists(d)
          \/ DeleteRefs(d)
          \/ DeleteNotifyPeers(d)
          \/ DeletePools(d)
          \/ DeleteRow(d)
          \/ DeleteFromDisk(d)
          \/ DeleteUnlock(d)
    \/ \E u \in SoloRefreshes :
          \/ \E q \in AliasRefreshRequests : ImageRefresh(u, q)
          \/ RefreshSource(u)
          \/ \E pool \in Pools \cup {NoPool} : RefreshDownload(u, pool)
          \/ RefreshGetImage(u)
          \/ RefreshStitch(u)
          \/ RefreshFinish(u)
          \/ RefreshDeleteOld(u)
    \/ UpstreamPublish(FB)
    \/ PruneStart("none", ExpiredEnv(ImageIds))
    \/ \E fp \in Fingerprints : PruneFingerprint(fp, FALSE)
    \/ \E id \in ImageIds : PruneRecord(id, prune.now)
    \/ PrunePools
    \/ PruneFiles

SpecAlias == InitAlias /\ [][NextAlias]_vars

(***************************************************************************)
(* SpecPrune: expiry runs over a store in which a fingerprint is cached in *)
(* one project and held, not cached, by another.                           *)
(***************************************************************************)
\* FA is cached in default and held by blue; FB is cached in both projects;
\* both have a volume on a pool.
PruneStore ==
    /\ images = {CachedImage(1, "default", FA, FALSE), NewImage(2, "blue", FA, FALSE),
                 CachedImage(3, "default", FB, FALSE), CachedImage(4, "blue", FB, FALSE)}
    /\ nextId = 5
    /\ aliases = {[project |-> "default", name |-> "foo", image |-> 1],
                  [project |-> "blue", name |-> "foo", image |-> 4]}
    /\ profiles = {[image |-> 1, profile |-> "default"]}
    /\ volumes = {<<"pool1", FA>>, <<"pool1", FB>>, <<"pool2", FB>>}
    /\ files = {Blob(FA), Rootfs(FA), Blob(FB)}
    /\ builddirs = {}

InitPrune == AllIdle /\ PruneStore /\ NoTokens

NextPrune ==
    \/ \E fault \in PruneFaults, expired \in SUBSET ImageIds :
          PruneStart(fault, ExpiredEnv(expired))
    \/ \E fp \in Fingerprints, cancelled \in BOOLEAN : PruneFingerprint(fp, cancelled)
    \/ \E id \in ImageIds : PruneRecord(id, prune.now)
    \/ PrunePools
    \/ PruneFiles

SpecPrune == InitPrune /\ [][NextPrune]_vars

(***************************************************************************)
(* SpecExpiry: expiry runs over the same store with the configuration, the *)
(* dates of the records and the clock drawn from small sets.               *)
(***************************************************************************)
\* The clock at the start of a run, and the dates of a record: uploaded long
\* ago or just now, never used or used just now.
ExpiryNow == 5 * Day
ExpiryOld == Hour

ExpiryEnvs ==
    {[NoEnv EXCEPT !.global = g, !.now = ExpiryNow,
                   !.config = [p \in Projects |-> IF p = "default" THEN c ELSE NoExpiry],
                   !.upload = [id \in ImageIds |-> IF id \in old THEN ExpiryOld ELSE ExpiryNow],
                   !.lastUse = [id \in ImageIds |-> IF id \in used THEN ExpiryNow ELSE ZeroTime]] :
        g \in {0, 1, 6}, c \in {NoExpiry, "0", "1", "6", "-1", "x"},
        old \in SUBSET {1, 4}, used \in SUBSET {1}}

InitExpiry == AllIdle /\ PruneStore /\ NoTokens

NextExpiry ==
    \/ \E fault \in {"none", "row"}, env \in ExpiryEnvs : PruneStart(fault, env)
    \/ \E fp \in Fingerprints : PruneFingerprint(fp, FALSE)
    \/ \E id \in ImageIds, later \in {0, Day} : PruneRecord(id, prune.now + later)
    \/ PrunePools
    \/ PruneFiles

SpecExpiry == InitExpiry /\ [][NextExpiry]_vars

(***************************************************************************)
(* SpecMigration: one side of a migration, from the making of the session  *)
(* to the return of do.                                                    *)
(***************************************************************************)
MigrationArgs ==
    {a \in [side : {"source", "sink"}, stateful : BOOLEAN, running : BOOLEAN,
            live : BOOLEAN, container : BOOLEAN, criu : BOOLEAN, push : BOOLEAN,
            fault : {"none", "secret", "setup"}] :
        /\ a.side = "source" => ~a.live
        /\ a.side = "sink" => ~a.stateful /\ ~a.running}

InitMigration == AllIdle /\ EmptyStore /\ NoTokens

NextMigration ==
    \/ \E args \in MigrationArgs : NewMigrationSource(args)
    \/ \E args \in MigrationArgs : NewMigrationSink(args)
    \/ DoWait
    \/ DoControlFailed
    \/ DoControlConnected
    \/ \E name \in {SecretNameFilesystem, SecretNameState} : ConnFunc(name)
    \/ MigrateDisconnect
    \/ \E err \in MigrateErrors \cup {NoError} : MigrateReturn(err)
    \/ DoReturn

SpecMigration == InitMigration /\ [][NextMigration]_vars

\* The wait for the control connection has a context of 30 seconds (lines
\* 88 and 219): it ends, with the connection or without.
SpecMigrationLive ==
    SpecMigration /\ WF_vars(DoControlFailed \/ DoControlConnected)

(***************************************************************************)
(* SpecIngest: one raw upload by a trusted client into an empty store,     *)
(* with or without X-Incus-fingerprint and an alias, and with the failures *)
(* of the steps of its operation.                                          *)
(***************************************************************************)
IngestRequests ==
    [kind : {"upload"}, project : {"default"}, bytes : Fingerprints, split : BOOLEAN,
     expect : FpHeaders, secret : {NoSecret}, trusted : {TRUE}, profile : {""},
     alias : {NoAlias, "foo"}, notify : {FALSE},
     fault : {"none", "part", "meta", "create", "sync"}]

InitIngest == AllIdle /\ EmptyStore /\ NoTokens

NextIngest ==
    \E r \in GatePosts :
        \/ \E q \in IngestRequests : ImagesPost(r, q)
        \/ GetImgPostInfoMove(r)
        \/ GetImgPostInfoExists(r)
        \/ GetImgPostInfoCommit(r)
        \/ PostAliases(r)

SpecIngest == InitIngest /\ [][NextIngest]_vars

(***************************************************************************)
(* SpecGet: imageGet and imagesGet from every kind of client on a store of *)
(* two projects, any of whose images may be public, with image tokens.     *)
(***************************************************************************)
GetStore ==
    /\ images = {NewImage(1, "default", FA, FALSE), NewImage(2, "default", FB, FALSE),
                 NewImage(3, "blue", FA, FALSE), NewImage(4, "blue", FB, FALSE)}
    /\ nextId = 5
    /\ aliases = {}
    /\ profiles = {}
    /\ volumes = {}
    /\ files = {Blob(FA), Blob(FB)}
    /\ builddirs = {}

ImageGetRequests ==
    [kind : {"imageGet"}, project : Projects, fingerprint : {FA, <<2>>},
     secret : {NoSecret, 1}, allProjects : {FALSE}, trusted : BOOLEAN, canView : BOOLEAN,
     permitted : {{}}, fault : {"none", "lookup", "permission", "operations", "cancel"}]

ImagesGetRequests ==
    [kind : {"imagesGet"}, project : Projects, fingerprint : {NoFp}, secret : {NoSecret},
     allProjects : BOOLEAN, trusted : BOOLEAN, canView : BOOLEAN,
     permitted : {{}, {2, 4}}, fault : {"none", "lookup", "permission", "filter"}]

InitGet ==
    /\ ImagesIdle /\ GetStore /\ NoTokens
    /\ prune = IdlePrune
    /\ mig = IdleMigration
    /\ nodes = NoEdit
    /\ autoUpdate = IdleAuto
    /\ sync = IdleSync
    /\ export = IdleExport
    /\ leftover = IdleLeftover
    /\ \E pub \in SUBSET {1, 3} : get = [IdleGet EXCEPT !.public = pub]

NextGet ==
    \/ \E q \in ImageGetRequests : ImageGet(q)
    \/ \E q \in ImagesGetRequests : ImagesGet(q)
    \/ \E i \in images : i.id = 1 /\ tokens = {} /\ ImageSecret(i)
    \/ \E t \in tokens : OperationExpire(t)

SpecGet == InitGet /\ [][NextGet]_vars

(***************************************************************************)
(* SpecValidate: validateNewConfig on the member lists of up to MaxMembers *)
(* members, as the edit loop calls it on the nodes it read.                *)
(***************************************************************************)
OldNames == {"", "a"}
NewNames == {"", "a", "b"}

OldLists == RaftNodeLists(MaxMembers, OldNames)
NewLists == MemberLists(MaxMembers, NewNames)

\* The editor is open on the raft nodes of some database.
InitValidate ==
    /\ ImagesIdle /\ EmptyStore /\ NoTokens
    /\ prune = IdlePrune
    /\ mig = IdleMigration
    /\ get = IdleGet
    /\ autoUpdate = IdleAuto
    /\ sync = IdleSync
    /\ export = IdleExport
    /\ leftover = IdleLeftover
    /\ \E l \in OldLists :
          nodes = [NoEdit EXCEPT !.db = l, !.old = l, !.pc = "editor",
                                 !.named = Named(<<>>, l), !.first = IDs(l)]

\* The first round of the loop.
NextValidate ==
    /\ nodes.res = "none"
    /\ \E newNodes \in NewLists : ClusterEditSubmit(newNodes, "none")

SpecValidate == InitValidate /\ [][NextValidate]_vars

(***************************************************************************)
(* SpecClusterEdit: runs of the edit command, one after the other, on a    *)
(* cluster of up to MaxEditMembers members.                                *)
(***************************************************************************)
\* The names of the edit runs: a member may lose its name and get it back.
OldEditLists == RaftNodeLists(MaxEditMembers, OldNames)
NewEditLists == MemberLists(MaxEditMembers, OldNames)

InitClusterEdit ==
    /\ ImagesIdle /\ EmptyStore /\ NoTokens
    /\ prune = IdlePrune
    /\ mig = IdleMigration
    /\ get = IdleGet
    /\ autoUpdate = IdleAuto
    /\ sync = IdleSync
    /\ export = IdleExport
    /\ leftover = IdleLeftover
    /\ \E l \in OldEditLists :
          /\ validateNewConfig(l, l) = "ok"
          /\ nodes = [NoEdit EXCEPT !.db = l, !.named = Named(<<>>, l), !.first = IDs(l)]

NextClusterEdit ==
    \/ ClusterEditLoad
    \/ \E newNodes \in NewEditLists, fault \in {"none", "reconfigure"} :
          ClusterEditSubmit(newNodes, fault)
    \/ ClusterEditSubmit(<<>>, "role")
    \/ ClusterEditSubmit(<<>>, "yaml")
    \/ ClusterEditAbort

SpecClusterEdit == InitClusterEdit /\ [][NextClusterEdit]_vars

(***************************************************************************)
(* Claims about ingestion.                                                 *)
(***************************************************************************)
Started == {r \in Posts : post[r].pc # "idle"}
Ingesting == {r \in Posts : post[r].pc \notin {"idle", "done"}}

\* The error category "already-exists / conflict": the fingerprint is already
\* in the project, seen by the ImageExists check or by CreateImage itself.
AlreadyExistsErrors == {"AlreadyExists", "Conflict"}

\* The started uploads are ingestions of the same bytes into the same project,
\* each a request that names no missing profile and meets no I/O failure.
SameUploads ==
    /\ Started # {}
    /\ \A r, s \in Started : /\ post[r].q.bytes = post[s].q.bytes
                             /\ post[r].q.project = post[s].q.project
    /\ \A r \in Started : /\ post[r].q.kind = "upload"
                          /\ post[r].q.fault = "none"
                          /\ post[r].q.profile \in ProfileNames \cup {""}

\* C1: of any number of concurrent raw uploads of identical bytes into one
\* project, once all have finished exactly one has succeeded and created the
\* record, every other one failed with an already-exists error, and no build
\* directory of any of them is left under images/.
OneUploadSucceeds ==
    (SameUploads /\ Ingesting = {}) =>
        /\ Cardinality({r \in Started : post[r].res = "ok"}) = 1
        /\ \A r \in Started : post[r].res # "ok" => post[r].res \in AlreadyExistsErrors
        /\ \A r \in Started :
              Cardinality(RecordsOf(images, post[r].q.project, post[r].q.bytes)) = 1
        /\ builddirs = {}

\* Two identical uploads finished; the loser passed the ImageExists check
\* before the winner committed and was stopped by CreateImage.
OneUploadSucceedsWitness ==
    /\ SameUploads /\ Ingesting = {}
    /\ \E r, s \in Started : post[r].res = "ok" /\ post[s].res = "Conflict"

FileHasRecord(f) == \E i \in images : i.fp = f.fp

\* C3: on a server whose image directory is not shared, every file images/X
\* has a project record whose fingerprint is X without '.rootfs'; a failed or
\* rejected ingestion leaves no file without a record.  Stated for the states
\* in which no ingestion is under way.
FilesHaveRecords ==
    Ingesting = {} => \A f \in files : FileHasRecord(f)

\* The requests that are inside imgPostInstanceInfo, or between it and the
\* Lock and Unlock calls around it.
InInstanceInfo == {r \in Posts : post[r].pc \in {"export", "move", "create", "unlock"}}

\* C9: at most one imgPostInstanceInfo runs at a time on a member: a request
\* is inside it only as the holder of imagePublishLock, the lock is released
\* when it has returned, with or without an error, and raw uploads, remote
\* pulls and URL pulls never hold the lock.
OnePublishAtATime ==
    /\ Cardinality(InInstanceInfo) <= 1
    /\ \A r \in Posts : r \in InInstanceInfo <=> publishLock = <<"post", r>>
    /\ \A r \in InInstanceInfo : post[r].q.kind = "instance"
    /\ InInstanceInfo = {} => publishLock = Nobody

\* One publish is inside imgPostInstanceInfo, after its CreateImage failed and
\* before the Unlock; a second publish waits for the lock.
OnePublishAtATimeWitness ==
    \E r, s \in Posts :
        /\ post[r].pc = "unlock" /\ post[r].res = "CreateFailed"
        /\ post[s].pc = "run" /\ post[s].q.kind = "instance"

(***************************************************************************)
(* Claims about image tokens and the trust gate of imagesPost.             *)
(***************************************************************************)
\* C5: an image token is single-use: after one call of imageValidSecret
\* matched a token operation, no later call with the same fingerprint and
\* secret finds a token.
TokenSingleUse == calls.again = {}

GateErrors == {"PermissionFailed", "LookupFailed"}
Rejected == {r \in Started : post[r].res \in {"Forbidden"} \cup GateErrors}
Untrusted == {r \in Started : ~post[r].q.trusted}
PassedGate == Started \ Rejected

\* C6 as claimed: an untrusted imagesPost reaches ingestion only with both
\* headers and a matching token operation; in every other case it is answered
\* Forbidden and creates no build directory, blob file or image record.
UntrustedForbidden ==
    \A r \in Untrusted :
        IF post[r].q.secret # NoSecret /\ post[r].q.expect # NoFp /\ post[r].byToken
        THEN TRUE
        ELSE post[r].res = "Forbidden" /\ r \notin builddirs

\* C6, amended: an untrusted imagesPost passes the gate only with both headers
\* and a token operation that imageValidSecret matched to them; in every other
\* case it is answered Forbidden, or with the error of the permission check or
\* of the token lookup when that one failed, and it creates no build
\* directory, blob file or record.
UntrustedNeedsToken ==
    /\ \A r \in Untrusted \cap PassedGate :
          post[r].q.secret # NoSecret /\ post[r].q.expect # NoFp /\ post[r].byToken
    /\ \A r \in Untrusted \cap Rejected :
          /\ post[r].pc = "done"
          /\ r \notin builddirs
          /\ post[r].res \in GateErrors => post[r].q.fault \in {"permission", "lookup"}
    /\ PassedGate = {} => (files = {Blob(FA)} /\ nextId = 2 /\ builddirs = {})

\* An untrusted upload of new bytes, admitted by a token of an image whose
\* fingerprint starts with the fingerprint the request names, was ingested up
\* to the comparison of the fingerprints.
UntrustedNeedsTokenWitness ==
    \E r \in Untrusted :
        /\ post[r].byToken /\ post[r].q.bytes = FB
        /\ post[r].res = "FingerprintMismatch"

(***************************************************************************)
(* Claims about the maintenance tasks.                                     *)
(***************************************************************************)
RunningTasks == {t \in Tasks : task[t].op = "running"}
HoldsTaskMu(t) == task[t].pc \in {"locked", "waiting", "return"}

InDeletingSection(d) ==
    del[d].pc \in {"exists", "refs", "notify", "pools", "row", "disk", "unlock"}

HoldsOperationLock(d) ==
    \E fp \in Fingerprints : opLock[fp] = <<"del", d>> /\ fp = del[d].fp

\* The requests that resolved the same record as d.
SameDeletes(d) == {e \in Deletes : del[e].pc # "idle" /\ del[e].id = del[d].id}

\* Two or more client requests resolved the same record of the same project,
\* met no failure of a transaction or a pool, and have all finished.
ConcurrentDeletes(d) ==
    /\ del[d].id # NoImage
    /\ Cardinality(SameDeletes(d)) >= 2
    /\ \A e \in SameDeletes(d) :
          del[e].pc = "done" /\ ~del[e].notify /\ del[e].fault = "none"

\* The record is gone and, once no project has the fingerprint and no other
\* delete of it is under way, so are its files and volumes.
Gone(project, fp) ==
    /\ ~ImageExists(images, project, fp)
    /\ (/\ ~ImageIsReferencedByOtherProjects(images, project, fp)
        /\ \A d \in Deletes : InDeletingSection(d) => del[d].fp # fp) =>
          /\ Blob(fp) \notin files /\ Rootfs(fp) \notin files
          /\ \A v \in volumes : v[2] # fp

\* C8: a request is in the deleting section of imageDelete only as the holder
\* of imageOperationLock(fingerprint), and of two concurrent deletes of the
\* same image in the same project exactly one removes the image and the other
\* fails with 'Image not found' and deletes nothing and asks no peer.
DeleteSerialised ==
    /\ \A d \in Deletes : InDeletingSection(d) <=> HoldsOperationLock(d)
    /\ \A d \in Deletes :
          ConcurrentDeletes(d) =>
              /\ Cardinality({e \in SameDeletes(d) : del[e].res = "ok"}) = 1
              /\ \A e \in SameDeletes(d) :
                    \/ del[e].res = "ok"
                    \/ del[e].res = "ImageNotFound" /\ \A n \in peerDeletes : n.by # e
              /\ Gone(del[d].project, del[d].fp)

\* Two deletes of the image that only one project holds have finished: one
\* deleted it, the other found it gone after it got the lock.
DeleteSerialisedWitness ==
    \E d \in Deletes :
        /\ ConcurrentDeletes(d) /\ del[d].fp = FB /\ del[d].res = "ok"
        /\ \E e \in SameDeletes(d) : del[e].res = "ImageNotFound"
        /\ Blob(FB) \notin files

\* The step of a client's imageDelete that finds the image referenced by
\* another project.
ReferencedDeleteStep(d) ==
    /\ del[d].pc = "refs" /\ del'[d].pc # "refs"
    /\ del[d].fault = "none"
    /\ ImageIsReferencedByOtherProjects(images, del[d].project, del[d].fp)

\* C10: when imageDelete, not a cluster notification, finds the image still
\* referenced by another project, it removes this project's record and
\* nothing else: the files images/<fp> and images/<fp>.rootfs, the pool
\* volumes and the other projects' records are unchanged, no peer is asked to
\* delete the image, and the operation ends with success.
ReferencedDeleteFrame ==
    [][\A d \in Deletes :
          /\ ReferencedDeleteStep(d) =>
                /\ images' = {i \in images : ~(i.project = del[d].project /\ i.fp = del[d].fp)}
                /\ files' = files /\ volumes' = volumes /\ peerDeletes' = peerDeletes
                /\ del'[d].pc = "unlock" /\ del'[d].res = "ok"
          /\ del[d].referenced =>
                /\ del'[d].pc \in {"unlock", "done"}
                /\ \A n \in peerDeletes' : n.by # d]_vars

\* A delete of FA in one project has ended with success, the other project
\* still has FA, and the file and the volume of FA are in place.
ReferencedDeleteFrameWitness ==
    \E d \in Deletes :
        /\ del[d].referenced /\ del[d].pc = "done" /\ del[d].res = "ok"
        /\ del[d].fp = FA /\ ~ImageExists(images, del[d].project, FA)
        /\ \E i \in images : i.fp = FA
        /\ Blob(FA) \in files /\ <<"pool1", FA>> \in volumes

(***************************************************************************)
(* Claims about refreshes and about the files of the records.              *)
(***************************************************************************)
\* autoUpdateImage has returned a new image to its caller.
ReturnedNew(u) ==
    /\ refresh[u].pc = "returned"
    /\ refresh[u].newInfo # NoFp
    /\ refresh[u].newInfo # refresh[u].fp

\* The record of the project that has the returned fingerprint.
NewRecords(u) == RecordsOf(images, refresh[u].project, refresh[u].newInfo)

\* C4: when autoUpdateImage returns a new image for fingerprint F, every alias
\* and the default-profile link that pointed to the record of F when it was
\* called point to the record of the new fingerprint, and neither images/F
\* nor images/F.rootfs is on disk.
RefreshStitched ==
    \A u \in Refreshes :
        ReturnedNew(u) =>
            /\ \A name \in refresh[u].before :
                  \E a \in aliases, i \in NewRecords(u) :
                      a.project = refresh[u].project /\ a.name = name /\ a.image = i.id
            /\ refresh[u].beforeDefault =>
                  \E i \in NewRecords(u) : [image |-> i.id, profile |-> "default"] \in profiles
            /\ Blob(refresh[u].fp) \notin files
            /\ Rootfs(refresh[u].fp) \notin files

Refreshing == {u \in Refreshes : refresh[u].pc \notin {"idle", "done"}}

\* C2: every image record of a project has its file images/<fingerprint> on
\* disk.  Stated for the states in which no refresh is under way.
RecordsHaveBlobs ==
    Refreshing = {} => \A i \in images : Blob(i.fp) \in files


HeldFingerprints == {i.fp : i \in images}

\* C12: when pruneExpiredImages has returned, no project holds a record of a
\* fingerprint whose files and volumes the run removed, and the records the
\* run dropped were expired ones.
PruneRemovesUnheld ==
    prune.pc = "done" =>
        /\ prune.removed \cap HeldFingerprints = {}
        /\ \A id \in prune.dropped : \E p \in Projects :
              Timestamp(prune.env, id) + ExpiryDays(prune.env, p) * Day <= prune.now

(***************************************************************************)
(* Claims about the migration session.                                     *)
(***************************************************************************)
NewMigrationErrors ==
    {"ErrNoLiveMigrationSource", "ErrNoLiveMigrationTarget", "SecretMissing", "SetupFailed"}

\* A session was made: newMigrationSource or newMigrationSink returned one.
SessionCreated == mig.pc # "idle" /\ mig.res \notin NewMigrationErrors

DoReturned == SessionCreated /\ mig.pc = "done"

Opened(name) == \E i \in DOMAIN mig.log : mig.log[i] = <<"open", name>>

\* C13: the wait for the control connection ends, and when do has returned
\* without the control connection established, it returned "Failed waiting
\* for migration control connection on source" (on target for the sink),
\* MigrateSend or MigrateReceive was never called and neither the filesystem
\* nor the state channel was opened.
ControlTimeoutAborts ==
    /\ [](DoReturned /\ ~Opened(SecretNameControl) =>
             /\ mig.res = (IF mig.args.side = "source"
                           THEN "Failed waiting for migration control connection on source"
                           ELSE "Failed waiting for migration control connection on target")
             /\ ~mig.called
             /\ ~Opened(SecretNameFilesystem)
             /\ ~Opened(SecretNameState)
             /\ \A c \in DOMAIN mig.conns : mig.conns[c] = "new")
    /\ (mig.pc = "wait" ~> mig.pc # "wait")

ControlTimeoutAbortsWitness ==
    /\ DoReturned
    /\ mig.live
    /\ ~Opened(SecretNameControl)
    /\ mig.res = "Failed waiting for migration control connection on source"

\* C14: when do of a pull-mode source has returned because the control
\* connection was not there in time, every channel of the session is closed.
TimeoutClosesChannels ==
    (/\ DoReturned
     /\ mig.args.side = "source"
     /\ ~mig.push
     /\ ~Opened(SecretNameControl))
        => \A c \in DOMAIN mig.conns : mig.conns[c] = "closed"

\* do has returned the error of MigrateSend or MigrateReceive.
MigrateFailed == mig.called /\ mig.pc \in {"return", "done"} /\ mig.res # NoError

\* C15: when MigrateSend or MigrateReceive returned an error, that error was
\* written to the control channel before the teardown of the side closed a
\* channel, and it is the result of do.
ErrorBeforeTeardown ==
    MigrateFailed =>
        /\ \E err \in MigrateErrors :
              mig.res = <<(IF mig.args.side = "source" THEN "Failed migration on source"
                           ELSE "Failed migration on target"), err>>
        /\ \E i \in DOMAIN mig.log :
              /\ mig.log[i] = <<"sendControl", mig.res>>
              /\ \A j \in DOMAIN mig.log : mig.log[j][1] = "close" => i < j

ErrorBeforeTeardownWitness ==
    /\ MigrateFailed
    /\ mig.pc = "done"
    /\ mig.live
    /\ \E j \in DOMAIN mig.log : mig.log[j] = <<"close", SecretNameState>>
    /\ mig.conns[SecretNameControl] = "closed"

\* do has returned after the control connection was established.
ReturnedConnected == DoReturned /\ Opened(SecretNameControl)

\* Every channel but control is closed, and no close of control in the log
\* comes before the close of another channel.
ClosedControlLast ==
    /\ \A c \in DOMAIN mig.conns \ {SecretNameControl} : mig.conns[c] = "closed"
    /\ \A i, j \in DOMAIN mig.log :
          /\ mig.log[i] = <<"close", SecretNameControl>>
          /\ mig.log[j][1] \in {"close", "Disconnect"}
          /\ mig.log[j] # <<"close", SecretNameControl>>
          => j < i

DisconnectStep == mig'.log = Append(mig.log, <<"Disconnect", "">>)

\* C16: the Disconnect callback closes every channel but control and leaves
\* control open, in a session with a state channel and in one without.
DisconnectKeepsControl ==
    [][DisconnectStep =>
          /\ DOMAIN mig'.conns = DOMAIN mig.conns
          /\ mig.conns[SecretNameControl] = "open"
          /\ mig'.conns[SecretNameControl] = "open"
          /\ \A c \in DOMAIN mig.conns \ {SecretNameControl} : mig'.conns[c] = "closed"]_vars

DisconnectKeepsControlWitness ==
    /\ mig.pc = "migrate"
    /\ mig.live
    /\ Len(mig.log) > 0
    /\ mig.log[Len(mig.log)] = <<"Disconnect", "">>
    /\ Opened(SecretNameState)
    /\ mig.conns[SecretNameState] = "closed"
    /\ mig.conns[SecretNameControl] = "open"

\* C17: a session has the channels control and filesystem, and state as well
\* exactly when it is live; the session of a source is live exactly when a
\* stateful migration was asked for and the instance is running.
SessionChannels ==
    SessionCreated =>
        /\ DOMAIN mig.conns = IF mig.live THEN {"control", "filesystem", "state"}
                              ELSE {"control", "filesystem"}
        /\ mig.args.side = "source" => (mig.live <=> mig.args.stateful /\ mig.args.running)

SessionChannelsWitness ==
    /\ SessionCreated
    /\ mig.args.side = "source"
    /\ mig.live
    /\ DOMAIN mig.conns = {"control", "filesystem", "state"}

(***************************************************************************)
(* Claims about the cluster edit.                                          *)
(***************************************************************************)
\* validateNewConfig was called on nodes.old and nodes.newNodes.
Validated == nodes.valid # "none"

Positions(l, m) == DOMAIN l \cap DOMAIN m

NoNameDiffers(l, m) == \A i \in Positions(l, m) : l[i].Name = m[i].Name

Voters(l) == {i \in DOMAIN l : l[i].Role = "voter"}

\* C18: for member lists in which no name differs, validateNewConfig accepts
\* exactly when the two lists have the same length, every id is in its
\* place, no member that was a spare is a voter in the new list, the new list
\* has a voter and, with more than two members, two voters.
ValidateAcceptsExactly ==
    Validated /\ NoNameDiffers(nodes.old, nodes.newNodes) =>
        (nodes.valid = "ok" <=>
            /\ Len(nodes.newNodes) = Len(nodes.old)
            /\ \A i \in Positions(nodes.old, nodes.newNodes) :
                  /\ nodes.newNodes[i].ID = nodes.old[i].ID
                  /\ ~(nodes.old[i].Role = "spare" /\ nodes.newNodes[i].Role = "voter")
            /\ Cardinality(Voters(nodes.newNodes)) >= 1
            /\ Len(nodes.newNodes) > 2 => Cardinality(Voters(nodes.newNodes)) >= 2)

ValidateAcceptsExactlyWitness ==
    /\ Validated
    /\ NoNameDiffers(nodes.old, nodes.newNodes)
    /\ nodes.valid = "ok"
    /\ Len(nodes.newNodes) = 3
    /\ Cardinality(Voters(nodes.newNodes)) = 2
    /\ nodes.newNodes # nodes.old

\* C19: over the accepted edits, a member that once had a non-empty name has
\* that name in the database.
NamesKept ==
    \A i \in DOMAIN nodes.db :
        (i \in DOMAIN nodes.named /\ nodes.named[i] # "") => nodes.db[i].Name = nodes.named[i]

\* C20: validateNewConfig never faults, and a member list it accepted against
\* the old one is accepted against itself.
ValidateIdempotent ==
    Validated =>
        /\ nodes.valid # "panic"
        /\ nodes.valid = "ok" => validateNewConfig(nodes.newNodes, nodes.newNodes) = "ok"

ValidateIdempotentWitness ==
    /\ nodes.valid = "ok"
    /\ nodes.db = nodes.newNodes
    /\ Len(nodes.newNodes) = 3
    /\ ~NoNameDiffers(nodes.old, nodes.newNodes)
    /\ \E i \in DOMAIN nodes.old : nodes.old[i].Role # nodes.newNodes[i].Role

\* C21: over the accepted edits, the database has as many members as before
\* the first edit, with the same id at every position.
MembersStable ==
    /\ Len(nodes.db) = Len(nodes.first)
    /\ IDs(nodes.db) = nodes.first

\* An edit of a cluster of MaxEditMembers members was accepted and has
\* changed the database.
MembersStableWitness ==
    /\ nodes.res = "ok"
    /\ nodes.db # nodes.old
    /\ nodes.db = nodes.newNodes
    /\ Len(nodes.db) = MaxEditMembers
    /\ \E i \in DOMAIN nodes.db : nodes.db[i].Role # nodes.old[i].Role

\* C22: a round of the edit loop changes the raft nodes of the database only
\* to a member list that validateNewConfig accepts against the nodes read at
\* the start; a round that ends in an error of the parser, of the role
\* conversion or of validateNewConfig leaves the editor open; and the command
\* has ended in success only with the accepted member list written.
EditRound ==
    /\ nodes.pc = "editor"
    /\ nodes'.res # nodes.res \/ nodes'.newNodes # nodes.newNodes \/ nodes'.pc # nodes.pc
    /\ nodes'.res # "aborted"

RejectedKeepsConfig ==
    [][/\ nodes'.db # nodes.db =>
            /\ nodes.pc = "editor"
            /\ validateNewConfig(nodes.old, nodes'.newNodes) = "ok"
            /\ nodes'.db = nodes'.newNodes
       /\ EditRound /\ nodes'.res \notin {"ok", "ReconfigureFailed"} =>
            /\ nodes'.db = nodes.db
            /\ nodes'.pc = "editor"
       /\ nodes'.res = "ok" /\ nodes.pc = "editor" =>
            /\ validateNewConfig(nodes.old, nodes'.newNodes) = "ok"
            /\ nodes'.db = nodes'.newNodes]_vars

\* A member list with a changed id was rejected: the editor is open and the
\* database is as read.
RejectedKeepsConfigWitness ==
    /\ nodes.pc = "editor"
    /\ nodes.res = "Changing cluster member ID is not supported"
    /\ nodes.newNodes # nodes.db
    /\ nodes.db = nodes.old


(***************************************************************************)
(* Claims about imageGet, imagesGet and imageValidSecret.                  *)
(***************************************************************************)
\* The client of the last request is untrusted or may not view.
GetPublic == ~get.q.trusted \/ ~get.q.canView

\* The records the fingerprint of the last imageGet matches.
AskedImages == GetImage(images, get.q.project, get.q.fingerprint)

AskedFp == (CHOOSE i \in AskedImages : TRUE).fp

\* The token operations that matched the secret of the last imageGet.
AskedTokens == MatchingTokens(get.valid.seen, get.q.project, AskedFp, get.q.secret)

\* The last request was an imageGet of one private image by a client that
\* may not see it and has no valid secret.
PrivateAsked ==
    /\ get.q.kind = "imageGet"
    /\ GetPublic
    /\ Cardinality(AskedImages) = 1
    /\ \A i \in AskedImages : i.id \notin get.public
    /\ AskedTokens = {}

\* What the same request is answered when the image is not in the store.
AnswerWithoutImage ==
    ImageGetAnswer(images \ AskedImages, get.public, get.valid.seen, get.q).resp

PublicList ==
    get.q.kind = "imagesGet" /\ GetPublic =>
        /\ \A i \in images :
              i.id \in get.resp.ids => i.project = "default" /\ i.id \in get.public
        /\ get.q.project # "default" \/ get.q.allProjects => get.resp.code # 200

\* Projects default and blue both have public and private images; the client
\* is trusted but unauthorised and is answered the one public image of
\* default.
PublicListWitness ==
    /\ get.q.kind = "imagesGet"
    /\ get.q.trusted /\ ~get.q.canView
    /\ get.public = {1, 3}
    /\ get.resp = SyncResponse({1})

SyncFailed(r) ==
    /\ post[r].pc = "done"
    /\ post[r].q.fault = "sync"
    /\ post[r].res \in {"ok", "SyncFailed"}
    /\ ImageExists(images, post[r].q.project, post[r].q.bytes)
    /\ post[r].q.alias # NoAlias =>
          \E a \in aliases : a.project = post[r].q.project /\ a.name = post[r].q.alias

\* C25: an operation whose replica sync failed after the commit of the record
\* and the aliases ends in success.
SyncFailureHidden == \A r \in Posts : SyncFailed(r) => post[r].res = "ok"

\* The upload of the request had another SHA-256 than X-Incus-fingerprint.
Mismatched(r) ==
    /\ post[r].pc = "done"
    /\ post[r].q.kind = "upload"
    /\ post[r].res \notin GateErrors
    /\ post[r].q.expect # NoFp
    /\ post[r].q.expect # post[r].q.bytes

\* C26: an upload whose SHA-256 differs from X-Incus-fingerprint fails, and
\* its operation leaves no file in images/, no image record and no build
\* directory.
MismatchCommitsNothing ==
    \A r \in GatePosts :
        Mismatched(r) =>
            /\ post[r].res \in {"FingerprintMismatch", "InvalidMultipart"}
            /\ files = {}
            /\ images = {}
            /\ r \notin builddirs

\* A multipart upload of FA under the fingerprint FB has failed on the
\* comparison.
MismatchCommitsNothingWitness ==
    \E r \in GatePosts :
        /\ Mismatched(r)
        /\ post[r].q.split
        /\ post[r].q.bytes = FA
        /\ post[r].q.expect = FB
        /\ post[r].res = "FingerprintMismatch"


(***************************************************************************)
(* Claims about the hourly auto-update.                                    *)
(***************************************************************************)
\* The loop has ended and has replaced the record id by a new image.
Replaced(id) == autoUpdate.pc = "done" /\ id \in autoUpdate.replaced

\* The image-refreshed events the loop has sent for the record.
RefreshedEvents(id) == Len(SelectSeq(autoUpdate.refreshed, LAMBDA e : e = id))

\* C27: after a run of the loop that replaced the image FA of project
\* default by FB, FA is neither on disk nor in the database, FB is there, and
\* one image-refreshed event was sent for the image.
AutoUpdateReplaces ==
    Replaced(1) /\ autoUpdate.newImage = FB =>
        /\ files \cap {Blob(FA), Rootfs(FA)} = {}
        /\ ~\E i \in images : i.fp = FA
        /\ ImageExists(images, "default", FB)
        /\ Blob(FB) \in files
        /\ RefreshedEvents(1) = 1

\* The auto-update of a record has found a new fingerprint.
AutoUpdating(x) == ~x.manual /\ x.pc \notin {"idle", "done"} /\ x.hash # x.fp

\* C28: in an auto-update that found a new fingerprint, the files and the
\* volume of the old image are on disk as long as the old record is in the
\* database.
OldRecordGoesFirst ==
    LET x == refresh[AutoCall]
    IN  AutoUpdating(x) /\ DeleteImageOk(images, x.id) =>
            /\ Blob(x.fp) \in files
            /\ <<"pool1", x.fp>> \in volumes

\* The project of the record has an image of another fingerprint than the
\* one the record had: its image was refreshed.
RefreshedTo(i) == \E j \in images : j.project = i.project /\ j.fp # i.fp

\* C38: after a run of the loop, every record the run deleted belongs to a
\* project whose image was refreshed to the new fingerprint, and the blob of
\* every record the run read and kept is still on disk.
OnlyRefreshedDeleted ==
    autoUpdate.pc = "done" =>
        /\ \A i \in autoUpdate.all : i.id \in autoUpdate.replaced => RefreshedTo(i)
        /\ \A i \in autoUpdate.all : i \in images => Blob(i.fp) \in files

(***************************************************************************)
(* Claims about the expiry of cached images.                               *)
(***************************************************************************)
\* The records a step of the run deletes.
PruneDeletes == {i \in images : i.id \in prune'.dropped \ prune.dropped}

\* The effective expiry of a project in the configuration the run read: the
\* project's images.remote_cache_expiry when set, else the global default.
EffectiveExpiry(project) ==
    LET own == prune.env.config[project]
    IN  IF own = NoExpiry THEN prune.env.global ELSE ParseInt(own)

\* The date plus the expiry days of the record lies after the clock the step
\* read.
NotYetExpired(i) ==
    Timestamp(prune.env, i.id) + EffectiveExpiry(i.project) * Day > prune'.now

AutoCalled(id) ==
    /\ autoUpdate.pc = "image"
    /\ id \in autoUpdate.todo
    /\ id \notin autoUpdate'.todo \/ (autoUpdate'.pc = "call" /\ autoUpdate'.id = id)

\* The step is the start of a manual refresh of an image that exists.
ManualCalled(u) ==
    /\ refresh[u].pc = "idle"
    /\ refresh'[u].pc # "idle"
    /\ refresh'[u].manual
    /\ refresh'[u].res # "NotFound"

\* The effective interval: the project's images.auto_update_interval when
\* set, else the global default.
EffectiveInterval(clock, project) ==
    LET own == clock.config[project]
    IN  IF own = NoExpiry THEN clock.global ELSE ParseInt(own)

\* The effective interval is zero or negative, or the rounded hours since
\* the start are not a multiple of it.
MaxElapsedHours == 6
NotDue(clock, project) ==
    LET n == EffectiveInterval(clock, project)
    IN  n <= 0 \/ \A k \in 0..MaxElapsedHours : ElapsedHours(clock.elapsed) # k * n

\* C31: a call of autoUpdateImage by the hourly loop whose interval is not
\* due starts no download and changes neither the database nor the files; a
\* manual refresh goes on to the download whatever the interval is.
IntervalHonoured ==
    [][/\ \A i \in autoUpdate.all :
             (/\ AutoCalled(i.id)
              /\ ~IntervalError(autoUpdate'.clock, i.project)
              /\ NotDue(autoUpdate'.clock, i.project))
                 => UNCHANGED <<storeVars, refresh, upstream>>
       /\ \A u \in Refreshes : ManualCalled(u) => refresh'[u].pc = "source"]_vars

\* The loop has called autoUpdateImage for the record of project default one
\* hour after the start with an interval of six hours, and nothing was
\* started.
IntervalHonouredWitness ==
    /\ autoUpdate.pc = "image"
    /\ autoUpdate.clock.config["default"] = "6"
    /\ autoUpdate.clock.global = 1
    /\ autoUpdate.clock.elapsed = 60
    /\ 1 \in {i.id : i \in autoUpdate.all} \ autoUpdate.todo
    /\ refresh[AutoCall].pc = "idle"
    /\ ImageExists(images, "default", FA)

(***************************************************************************)
(* Claims about the selection of the member that updates.                  *)
(***************************************************************************)
\* The member has made its selection for the fingerprint without a failed
\* read.
Evaluated(m) == autoUpdate.round[m].res \in {"skipped", "update"}

\* Both members read the same holders, more than one, and the same number
\* of records.
SameReading(m, n) ==
    /\ Evaluated(m) /\ Evaluated(n)
    /\ autoUpdate.round[m].holders = autoUpdate.round[n].holders
    /\ autoUpdate.round[m].count = autoUpdate.round[n].count
    /\ Cardinality(autoUpdate.round[m].holders) > 1

\* C32: of the members that read the same holders of a fingerprint, more
\* than one, and the same number of records, at most one goes on to update
\* it, and when all the holders have read them, exactly one of the holders
\* does.
OneMemberUpdates ==
    \A m \in MemberIds :
        Evaluated(m) /\ Cardinality(autoUpdate.round[m].holders) > 1 =>
            LET same == {n \in MemberIds : SameReading(m, n)}
                updating == {n \in same : autoUpdate.round[n].res = "update"}
            IN  /\ Cardinality(updating) <= 1
                /\ updating \subseteq autoUpdate.round[m].holders
                /\ autoUpdate.round[m].holders \subseteq same => Cardinality(updating) = 1

\* The three members hold the image and have made their selection: the
\* local member skipped the fingerprint, another member updates it.
OneMemberUpdatesWitness ==
    /\ \A m \in MemberIds :
          Evaluated(m) /\ autoUpdate.round[m].holders = MemberIds
    /\ autoUpdate.round[LocalMember].res = "skipped"
    /\ \E m \in MemberIds : autoUpdate.round[m].res = "update"

(***************************************************************************)
(* Claims about imageSyncBetweenNodes.                                     *)
(***************************************************************************)
\* The desired number of replicas: images.minimal_replica, every member
\* when it is -1.
Desired == IF sync.replica = -1 THEN Cardinality(sync.members) ELSE sync.replica

\* The pulls a run may issue: the desired number less the holders it found.
Missing == Desired - Cardinality(sync.first)

\* The pulls that failed.
FailedPulls == Len(sync.pulls) - sync.copied

SyncBounded ==
    sync.pc # "idle" =>
        /\ sync.first = {} \/ Missing <= 0 => sync.pulls = <<>>
        /\ Missing > 0 => Len(sync.pulls) <= Missing
        /\ \A n \in DOMAIN sync.pulls : sync.pulls[n][1] \in sync.members /\ ~sync.pulls[n][2]
        /\ sync.pc = "pull" => sync.copied < Missing /\ FailedPulls = 0 /\ ~sync.held
        /\ FailedPulls <= 1

\* C33: imageSyncBetweenNodes issues no pull when no member has the image
\* or enough members have it; otherwise it issues at most as many pulls as
\* holders are missing, each to a member that did not have the image when it
\* was picked, none after that many succeeded or after one failed; and the
\* run ends.
SyncStops == []SyncBounded /\ (sync.pc \in {"loop", "pull"} ~> sync.pc = "done")

\* A run that found one holder of three desired has ended after two pulls
\* that succeeded.
SyncStopsWitness ==
    /\ sync.pc = "done"
    /\ sync.res = "ok"
    /\ Cardinality(sync.first) = 1
    /\ Desired = 3
    /\ Len(sync.pulls) = 2
    /\ sync.copied = 2

(***************************************************************************)
(* Claims about pruneLeftoverImages.                                       *)
(***************************************************************************)
\* The entries the run met that belong to no image of its list: the build
\* directories, and the files of a fingerprint that is not in the list.
Leftovers == {e \in leftover.seen : e.kind = "build" \/ e.fp \notin leftover.images}

\* C34: a run of pruneLeftoverImages on a multi-node images volume removes
\* nothing; any other run removes only entries whose name up to the first
\* dot is not a fingerprint of the list, and, when it returns without an
\* error, all of them; every other entry is still there.
LeftoverExact ==
    /\ leftover.removed \subseteq Leftovers
    /\ leftover.seen \ leftover.removed \subseteq ReadDir(files, builddirs)
    /\ leftover.multi => leftover.removed = {}
    /\ leftover.pc = "done" /\ leftover.res = "ok" /\ ~leftover.multi =>
           leftover.removed = Leftovers

\* A run has ended that kept the two files of FA and removed a file without
\* a record and a build directory.
LeftoverExactWitness ==
    /\ leftover.pc = "done"
    /\ leftover.res = "ok"
    /\ {Blob(FA), Rootfs(FA)} \subseteq files
    /\ Blob(FB) \in leftover.removed
    /\ BuildDir(1) \in leftover.removed

(***************************************************************************)
(* Claims about the compressors of imgPostInstanceInfo.                    *)
(***************************************************************************)
\* C35, the part that holds: once the export runs, imgPostInstanceInfo comes
\* to its return, whatever fails.
ExportTerminates == export.pc = "export" ~> export.pc = "done"

\* C35: when a compressor has failed, imgPostInstanceInfo returns the error
\* of a compressor that failed, not the error of the export and not success,
\* also when two compressors ran and one of them failed.
CompressorErrorFirst ==
    export.pc = "done" /\ export.failed # {} => export.res \in export.failed

(***************************************************************************)
(* Claims about the build directory of imagesPost.                         *)
(***************************************************************************)
\* C37: when imagesPost has returned without handing the build directory to
\* the operation, or the operation has ended, with or without an error, the
\* build directory of the request is gone.
BuilddirRemoved == \A r \in GatePosts : post[r].pc = "done" => r \notin builddirs

(***************************************************************************)
(* Claims about the leftover cleanup next to an ingestion.                 *)
(***************************************************************************)
\* C39: a step of pruneLeftoverImages removes neither the build directory
\* of a request that is still ingesting nor a file it has moved to
\* images/<fp> and not yet committed a record for.
LeftoverSparesIngestion ==
    [][leftover' # leftover =>
          \A r \in Ingesting :
              /\ r \in builddirs => r \in builddirs'
              /\ \A f \in files :
                    f.fp = post[r].q.bytes /\ ~ImageExists(images, post[r].q.project, f.fp)
                        => f \in files']_vars

(***************************************************************************)
(* Claims about the manual refresh next to the hourly loop.                *)
(***************************************************************************)
\* autoUpdateImage is executing in the slot, past the interval check.
InAutoUpdateImage(u) == refresh[u].pc \in {"source", "download", "stitch", "move", "finish"}

\* C40: the manual refresh and the hourly loop are never inside
\* autoUpdateImage for the same image record at the same time.
OneUpdaterPerRecord ==
    ~(/\ InAutoUpdateImage(AutoCall)
      /\ InAutoUpdateImage(ManualCall)
      /\ ~refresh[AutoCall].manual
      /\ refresh[ManualCall].manual
      /\ refresh[AutoCall].id = refresh[ManualCall].id)

====
